---- MODULE Spec2Model ----
(***************************************************************************)
(* Model of the metrics collector (monitor.py, class SystemMonitor) and of *)
(* the application that drives it (main.py, PerformanceEnhancerApp): the   *)
(* monitoring loop, its start and stop, the display of the snapshots, the  *)
(* on-demand analysis (ai_integration.py) and the export (utils.py).       *)
(*                                                                         *)
(* Numbers.  Every real number of the program is kept in hundredths (a     *)
(* value v stands for v/100), which is exact for all values the program    *)
(* rounds to one or two decimals.  round(x, 2) is RoundDiv: round to the   *)
(* nearest hundredth, ties to even.  Byte counters, times (whole seconds)  *)
(* and the integers the program builds with int() are plain integers.      *)
(*                                                                         *)
(* A Python dict is a function from its keys (the program's own strings)   *)
(* to values; d.update(e) is Update(d, e).  A formatted string is a record *)
(* of the pieces the f-string is made of.                                  *)
(***************************************************************************)
EXTENDS Integers, Sequences, FiniteSets, TLC

VARIABLES
    last_disk_io,       \* SystemMonitor.last_disk_io  (RateState)
    last_net_io,        \* SystemMonitor.last_net_io   (RateState)
    last_call_time,     \* SystemMonitor.last_call_time (RateState)
    system_info,        \* SystemMonitor.system_info   (HostBaseline)
    result,             \* what the latest get_detailed_system_data returned
    disk_synced,        \* history: last_disk_io and last_call_time were stored by
                        \*   the same call (or both by __init__)
    net_synced,         \* history: the same for last_net_io and last_call_time
    prev_keys,          \* history: key set of the previous successful snapshot
    observed_host,      \* history: the host readings and the random quantile the
                        \*   latest call observed
    monitoring_active,  \* PerformanceEnhancerApp.monitoring_active
    stop_event,         \* PerformanceEnhancerApp._stop_monitoring_event (is_set)
    monitoring_thread,  \* PerformanceEnhancerApp.monitoring_thread (0: None)
    thread_pc,          \* position of every monitor thread in _monitor_loop
    gui_pc,             \* position of the GUI thread inside _apply_interval
    data_history,       \* PerformanceEnhancerApp.data_history
    data_snapshot,      \* the local data_snapshot of every monitor thread, with the
                        \*   serial number of the sample (history; 0: none, error)
    nsampled,           \* history: successful samples returned so far
    history_serials,    \* history: the serial numbers of the entries of data_history
    gui_updates,        \* _update_gui_displays calls scheduled with root.after
    error_log,          \* "Monitoring Error" lines logged, counted up to MaxLog
    ai_jobs,            \* the arguments of the _ai_analysis_worker threads running
    ai_report,          \* what the latest finished analysis handed to the GUI
    returned,           \* history: the snapshots the monitor threads' calls returned,
                        \*   by serial number, as they were on return
    gui_pending,        \* the _update_gui_displays calls scheduled and not yet run:
                        \*   the snapshot each holds, with its serial number
    ai_job_serials,     \* history: the serial numbers of the entries of ai_jobs
    len_at_stop,        \* history: len(data_history) when stop_monitoring last returned
    perf_tree,          \* the rows of PerformanceEnhancerApp.perf_tree, by attribute
    csv_file,           \* the file the latest save_data_to_csv call wrote
    api_key,            \* GeminiAIIntegration.api_key
    ai_enabled          \* GeminiAIIntegration.ai_enabled

rate_vars == <<last_disk_io, last_net_io, last_call_time>>
monitor_vars == <<last_disk_io, last_net_io, last_call_time, system_info, result,
                  disk_synced, net_synced, prev_keys, observed_host>>
app_vars == <<monitoring_active, stop_event, monitoring_thread, thread_pc, gui_pc,
              data_history, data_snapshot, nsampled, history_serials, gui_updates,
              error_log, ai_jobs, ai_report, returned, gui_pending, ai_job_serials,
              len_at_stop, perf_tree, csv_file, api_key, ai_enabled>>
loop_vars == <<data_history, data_snapshot, nsampled, history_serials, gui_updates,
               error_log, returned, gui_pending>>
ai_vars == <<ai_jobs, ai_report, ai_job_serials>>
panel_vars == <<perf_tree, csv_file, api_key, ai_enabled>>
vars == <<last_disk_io, last_net_io, last_call_time, system_info, result,
          disk_synced, net_synced, prev_keys, observed_host,
          monitoring_active, stop_event, monitoring_thread, thread_pc, gui_pc,
          data_history, data_snapshot, nsampled, history_serials, gui_updates,
          error_log, ai_jobs, ai_report, returned, gui_pending, ai_job_serials,
          len_at_stop, perf_tree, csv_file, api_key, ai_enabled>>

(***************************************************************************)
(* Bounds of the model.                                                    *)
(***************************************************************************)
MaxTime == 2        \* time.time() yields a whole second in 0..MaxTime
MaxThreads == 2     \* monitor threads ever started
MaxHistory == 2     \* successful samples of a run
MaxLog == 1         \* error lines the log counts
MaxWorkers == 1     \* analysis worker threads running at a time

(***************************************************************************)
(* Arithmetic helpers.                                                     *)
(***************************************************************************)
Abs(x) == IF x < 0 THEN -x ELSE x

Max(a, b) == IF a >= b THEN a ELSE b

Min(a, b) == IF a <= b THEN a ELSE b

\* Mutant of RoundDiv: rounds up, as math.ceil would.
RoundDiv_up(n, d) == IF n % d = 0 THEN n \div d ELSE n \div d + 1

\* Python's round() of the exact quotient n/d (d > 0) to an integer, ties to
\* even.  \div is the floor, so this is right for negative n as well.
RoundDiv(n, d) ==
    LET q == n \div d
        r == n % d
    IN  IF 2 * r < d THEN q
        ELSE IF 2 * r > d THEN q + 1
        ELSE IF q % 2 = 0 THEN q ELSE q + 1

\* Python's int() of the exact quotient n/d (d > 0): truncation toward zero.
TruncDiv(n, d) ==
    LET q == n \div d
    IN  IF q < 0 /\ n % d # 0 THEN q + 1 ELSE q

\* dict.update: the entries of new replace those of data.
Update(data, new) == new @@ data

\* random.uniform(lo, hi) and random.randint(lo, hi) at quantile u of 0..2
\* (the low end, the middle, the high end of the range).
RandomLevels == {0, 1, 2}

Draw(lo, hi, u) == lo + (u * (hi - lo)) \div 2

\* str() of a float that has at most two decimals, given in hundredths:
\* Python prints the shortest form, so 14.0 is "14.0" and 1.95 is "1.95".
FloatStr(c) ==
    LET a == Abs(c)
        f == a % 100
    IN  [neg |-> c < 0,
         int |-> a \div 100,
         frac |-> IF f % 10 = 0 THEN <<f \div 10>> ELSE <<f \div 10, f % 10>>]

\* str() of an int: no decimal point.
IntStr(n) == [neg |-> n < 0, int |-> Abs(n), frac |-> <<>>]

\* The number (in hundredths) that the text of a number denotes.
FloatVal(s) ==
    LET f == IF Len(s.frac) = 0 THEN 0
             ELSE IF Len(s.frac) = 1 THEN 10 * s.frac[1]
             ELSE 10 * s.frac[1] + s.frac[2]
        a == 100 * s.int + f
    IN  IF s.neg THEN -a ELSE a

(***************************************************************************)
(* What one call of get_detailed_system_data observes of the host.  An    *)
(* observation e is a record:                                              *)
(*   now    time.time() at the start of the call (whole seconds)           *)
(*   fail   the OS query that raises during the call, "none" if none does  *)
(*   disk   psutil.disk_io_counters(): read_bytes, write_bytes             *)
(*   net    psutil.net_io_counters(): bytes_sent, bytes_recv, errin, errout*)
(*   host   the instantaneous readings, see Hosts below                    *)
(*   u      the quantile of the random draws of the call                   *)
(***************************************************************************)
FailPoints ==
    {"none", "cpu", "memory", "sensors", "disk_io_counters", "net_io_counters",
     "net_connections", "process"}

DiskCounters ==
    {[read_bytes |-> 1000000, write_bytes |-> 500000],
     [read_bytes |-> 3048000, write_bytes |-> 500000],
     [read_bytes |-> 3048000, write_bytes |-> 1548576]}

NetCounters ==
    {[bytes_sent |-> 0, bytes_recv |-> 2097152, errin |-> 0, errout |-> 0],
     [bytes_sent |-> 524288, bytes_recv |-> 2621440, errin |-> 1, errout |-> 2]}

\* psutil.sensors_temperatures(): sensor group -> entries (current in hundredths).
NoTemps == [g \in {} |-> <<>>]

CoreTemps ==
    [g \in {"coretemp"} |->
        <<[label |-> "Package id 0", current |-> 9100],
          [label |-> "Core 0", current |-> 5000],
          [label |-> "Core 1", current |-> 8800]>>]

ThermalTemps == [g \in {"cpu_thermal"} |-> <<[label |-> "", current |-> 4210]>>]

OtherGroupTemps ==
    [g \in {"k10temp", "thinkpad"} |->
        IF g = "k10temp" THEN <<[label |-> "Tctl", current |-> 7000]>>
        ELSE <<[label |-> "CPU", current |-> 6100]>>]

\* A coretemp group without a CPU or Core label, next to a cpu_thermal group.
UnlabeledCoreTemps ==
    [g \in {"coretemp", "cpu_thermal"} |->
        IF g = "coretemp" THEN <<[label |-> "Package id 0", current |-> 9100]>>
        ELSE <<[label |-> "", current |-> 5000]>>]

\* 'CPU' in entry.label or 'Core' in entry.label, for the labels above.
LabelMatches(label) == label \in {"CPU", "Core 0", "Core 1"}

\* psutil.sensors_fans() flattened: each fan's percent attribute is absent
\* (reading it raises AttributeError), None, or a number (hundredths).
NoFans == <<>>

FanWithoutPercent == <<[attr |-> "missing", percent |-> 0]>>

FanPercentNone == <<[attr |-> "None", percent |-> 0]>>

FanPercent == <<[attr |-> "value", percent |-> 4500], [attr |-> "value", percent |-> 7250]>>

\* GPUtil: not importable, getGPUs() raises, no device, or a first device with
\* load*100 (hundredths of a percent), memoryUsed (MB), temperature (hundredths).
GpuAbsent == [lib |-> "absent", load |-> 0, memoryUsed |-> 0, temperature |-> 0]

GpuRaises == [lib |-> "raises", load |-> 0, memoryUsed |-> 0, temperature |-> 0]

GpuNoDevice == [lib |-> "nodevice", load |-> 0, memoryUsed |-> 0, temperature |-> 0]

GpuIdleDevice == [lib |-> "device", load |-> 0, memoryUsed |-> 512, temperature |-> 4100]

GpuBusyDevice == [lib |-> "device", load |-> 1000, memoryUsed |-> 2048, temperature |-> 6650]

GpuStates == {GpuAbsent, GpuRaises, GpuNoDevice, GpuIdleDevice, GpuBusyDevice}

\* psutil.process_iter(): the readable processes (cpu_percent in hundredths).
NoProcs == <<>>

SomeProcs ==
    <<[name |-> "idle", cpu_percent |-> 0],
      [name |-> "python", cpu_percent |-> 1250],
      [name |-> "Xorg", cpu_percent |-> 300]>>

IdleProcs == <<[name |-> "idle", cpu_percent |-> 0]>>

\* The sensor functions the platform's psutil has: sensors_temperatures and
\* sensors_fans exist on some platforms only, and calling a function psutil
\* does not have raises AttributeError.
AllSensorApis == {"sensors_temperatures", "sensors_fans"}

\* The instantaneous readings of one call.  cpu_freq is in MHz, 0 when
\* psutil.cpu_freq() returns None.
Hosts ==
    [cpu_percent : {9000},
     cpu_freq : {1500},
     mem_percent : {8500},
     gpu : GpuStates,
     sensor_apis : {AllSensorApis},
     temps : {CoreTemps},
     fans : {FanPercent},
     procs : {SomeProcs}]
    \cup
    [cpu_percent : {9000},
     cpu_freq : {0, 1500},
     mem_percent : {8500},
     gpu : {GpuBusyDevice},
     sensor_apis : {AllSensorApis},
     temps : {NoTemps, CoreTemps, ThermalTemps, OtherGroupTemps, UnlabeledCoreTemps},
     fans : {NoFans, FanWithoutPercent, FanPercentNone, FanPercent},
     procs : {SomeProcs}]
    \cup
    [cpu_percent : {0, 9000},
     cpu_freq : {1500},
     mem_percent : {8500},
     gpu : {GpuAbsent},
     sensor_apis : {AllSensorApis},
     temps : {NoTemps},
     fans : {NoFans},
     procs : {NoProcs, SomeProcs, IdleProcs}]
    \cup
    [cpu_percent : {9000},
     cpu_freq : {0},
     mem_percent : {8500},
     gpu : {GpuAbsent},
     sensor_apis : {{}, {"sensors_temperatures"}, {"sensors_fans"}},
     temps : {NoTemps},
     fans : {NoFans},
     procs : {SomeProcs}]

\* The host of the spec's scenario (cpu 90, mem 85, gpu 10, temp 88).
ScenarioHost ==
    [cpu_percent |-> 9000, cpu_freq |-> 1500, mem_percent |-> 8500,
     gpu |-> GpuBusyDevice, sensor_apis |-> AllSensorApis, temps |-> CoreTemps,
     fans |-> FanPercent, procs |-> SomeProcs]

\* A host without any optional capability.
BareHost ==
    [cpu_percent |-> 0, cpu_freq |-> 0, mem_percent |-> 8500,
     gpu |-> GpuAbsent, sensor_apis |-> AllSensorApis, temps |-> NoTemps,
     fans |-> NoFans, procs |-> NoProcs]

(***************************************************************************)
(* SystemMonitor: the sub-stages.  Each stage is an operator that yields   *)
(* the dict the stage returns; a stage that can raise yields a record with *)
(* raised and data.                                                        *)
(***************************************************************************)
\* Maximum of cur and the values sel(s[i]) of a sequence: the loop
\* "for entry in s: cur = max(cur, entry...)".
RECURSIVE FoldMax(_, _, _)
FoldMax(s, vals, cur) ==
    IF s = <<>> THEN cur
    ELSE FoldMax(Tail(s), Tail(vals), IF Head(s) THEN Max(cur, Head(vals)) ELSE cur)

_get_static_system_info ==
    ("Operating System" :> "Linux-6.1.0-x86_64-with-glibc2.36")
    @@ ("System Architecture" :> "x86_64")
    @@ ("CPU Model (Sim)" :> "Unknown Processor")
    @@ ("Python Version" :> "3.11.2")
    @@ ("Total RAM (GB)" :> 1560)
    @@ ("Boot Time" :> "2024-01-01 00:00:00")

_get_cpu_data(e) ==
    ("CPU Usage (%)" :> e.host.cpu_percent)
    @@ ("CPU Freq (GHz)" :>
            IF e.host.cpu_freq # 0 THEN RoundDiv(e.host.cpu_freq * 100, 1000) ELSE 0)
    @@ ("Logical Cores" :> 8)
    @@ ("Physical Cores" :> 4)
    @@ ("CPU User Time (%)" :> e.host.cpu_percent)
    @@ ("CPU System Time (%)" :> 0)
    @@ ("CPU Idle Time (%)" :> 10000 - e.host.cpu_percent)
    @@ ("CPU Iowait Time (%)" :> 0)

_get_memory_data(e) ==
    ("Memory Usage (%)" :> e.host.mem_percent)
    @@ ("Used Memory (GB)" :> 1326)
    @@ ("Available Memory (GB)" :> 234)
    @@ ("Cached Memory (GB)" :> 100)
    @@ ("Swap Usage (%)" :> 0)
    @@ ("Used Swap (GB)" :> 0)
    @@ ("Shared Memory (GB)" :> 12)

\* Lines 136-150: the values read from the first device, 0.0 everywhere when
\* GPUtil is None, raises or reports no device.
GpuRead(e) ==
    IF e.host.gpu.lib = "device"
    THEN ("GPU Usage (%)" :> e.host.gpu.load)
         @@ ("GPU Memory (GB)" :> RoundDiv(e.host.gpu.memoryUsed * 100, 1024))
         @@ ("GPU Temp (°C)" :> RoundDiv(e.host.gpu.temperature, 10) * 10)
    ELSE ("GPU Usage (%)" :> 0) @@ ("GPU Memory (GB)" :> 0) @@ ("GPU Temp (°C)" :> 0)

\* Mutant of _get_gpu_data: without a device only the simulated entries are
\* returned, the memory entry is left out.
_get_gpu_data_simulated_only(e) ==
    IF GpuRead(e)["GPU Usage (%)"] = 0
    THEN ("GPU Usage (%)" :> Draw(10, 500, e.u))
         @@ ("GPU Temp (°C)" :> RoundDiv(Draw(3000, 4500, e.u), 10) * 10)
    ELSE GpuRead(e)

\* Mutant of _get_gpu_data: only the usage is simulated, the temperature stays
\* as read.
_get_gpu_data_usage_only(e) ==
    IF GpuRead(e)["GPU Usage (%)"] = 0
    THEN ("GPU Usage (%)" :> Draw(10, 500, e.u)) @@ GpuRead(e)
    ELSE GpuRead(e)

\* Lines 152-155: a usage of 0.0 is replaced by round(uniform(0.1, 5.0), 2) and
\* the temperature by round(uniform(30, 45), 1).
_get_gpu_data(e) ==
    LET gpu_data == GpuRead(e)
    IN  IF gpu_data["GPU Usage (%)"] = 0
        THEN ("GPU Usage (%)" :> Draw(10, 500, e.u))
             @@ ("GPU Temp (°C)" :> RoundDiv(Draw(3000, 4500, e.u), 10) * 10)
             @@ gpu_data
        ELSE gpu_data

\* Mutant of SensorCpuTemp: every entry of coretemp counts, whatever its label.
SensorCpuTemp_any_label(temps) ==
    IF "coretemp" \in DOMAIN temps
    THEN FoldMax([i \in 1..Len(temps["coretemp"]) |-> TRUE],
                 [i \in 1..Len(temps["coretemp"]) |-> temps["coretemp"][i].current],
                 0)
    ELSE IF "cpu_thermal" \in DOMAIN temps
    THEN FoldMax([i \in 1..Len(temps["cpu_thermal"]) |-> TRUE],
                 [i \in 1..Len(temps["cpu_thermal"]) |-> temps["cpu_thermal"][i].current],
                 0)
    ELSE 0

\* Lines 161-171: the CPU temperature found in the sensor groups, 0.0 if none.
SensorCpuTemp(temps) ==
    IF "coretemp" \in DOMAIN temps
    THEN FoldMax([i \in 1..Len(temps["coretemp"]) |->
                      LabelMatches(temps["coretemp"][i].label)],
                 [i \in 1..Len(temps["coretemp"]) |-> temps["coretemp"][i].current],
                 0)
    ELSE IF "cpu_thermal" \in DOMAIN temps
    THEN FoldMax([i \in 1..Len(temps["cpu_thermal"]) |-> TRUE],
                 [i \in 1..Len(temps["cpu_thermal"]) |-> temps["cpu_thermal"][i].current],
                 0)
    ELSE 0

\* Lines 174-180: the largest fan percentage, 0.0 if no fan reports one.
SensorFanPercent(fans) ==
    FoldMax([i \in 1..Len(fans) |-> fans[i].attr = "value"],
            [i \in 1..Len(fans) |-> fans[i].percent],
            0)

_get_sensor_data(e) ==
    LET cpu_temp == SensorCpuTemp(e.host.temps)
        fan_speed_percent == SensorFanPercent(e.host.fans)
    IN  IF \/ e.fail = "sensors"
           \/ "sensors_temperatures" \notin e.host.sensor_apis          \* line 161
           \/ "sensors_fans" \notin e.host.sensor_apis                  \* line 175
           \/ \E i \in 1..Len(e.host.fans) : e.host.fans[i].attr = "missing"  \* line 178
        THEN [raised |-> TRUE, data |-> <<>>]
        ELSE [raised |-> FALSE,
              data |->
                ("CPU Temp (°C)" :>
                    IF cpu_temp > 0 THEN RoundDiv(cpu_temp, 10) * 10
                    ELSE RoundDiv(Draw(3500, 6000, e.u), 10) * 10)
                @@ ("Fan Speed (%)" :>
                    IF fan_speed_percent > 0 THEN RoundDiv(fan_speed_percent, 10) * 10
                    ELSE RoundDiv(Draw(3000, 6000, e.u), 10) * 10)]

\* 1024**2, the bytes of one megabyte (line 83).
MiB == 1048576

\* Mutant of Rate: an elapsed time below one second is taken as one second
\* instead of yielding 0.0.
Rate_min_elapsed_one(bytes, time_diff) ==
    RoundDiv(bytes * 100, Max(time_diff, 1) * MiB)

\* Mutant of Rate: a megabyte of 1,000,000 bytes.
Rate_decimal_megabyte(bytes, time_diff) ==
    IF time_diff > 0 THEN RoundDiv(bytes * 100, time_diff * 1000000) ELSE 0

\* Lines 83, 84, 91, 92: round((bytes / time_diff) / (1024**2), 2) if
\* time_diff > 0 else 0.0, in hundredths of a MB/s.
Rate(bytes, time_diff) ==
    IF time_diff > 0 THEN RoundDiv(bytes * 100, time_diff * MiB) ELSE 0

\* The I/O stage, statement by statement: a query that raises leaves the
\* assignments made before it in place.  rs is the RateState on entry.
_get_io_data(rs, time_diff, e) ==
    LET current_disk_io == e.disk
        disk_read_rate_mb ==
            Rate(current_disk_io.read_bytes - rs.last_disk_io.read_bytes, time_diff)
        disk_write_rate_mb ==
            Rate(current_disk_io.write_bytes - rs.last_disk_io.write_bytes, time_diff)
        current_net_io == e.net
        net_sent_rate_mb ==
            Rate(current_net_io.bytes_sent - rs.last_net_io.bytes_sent, time_diff)
        net_recv_rate_mb ==
            Rate(current_net_io.bytes_recv - rs.last_net_io.bytes_recv, time_diff)
    IN  IF e.fail = "disk_io_counters"                               \* line 80
        THEN [raised |-> TRUE, data |-> <<>>,
              last_disk_io |-> rs.last_disk_io, last_net_io |-> rs.last_net_io]
        ELSE IF e.fail = "net_io_counters"                           \* line 88
        THEN [raised |-> TRUE, data |-> <<>>,
              last_disk_io |-> current_disk_io, last_net_io |-> rs.last_net_io]
        ELSE IF e.fail = "net_connections"                           \* line 100
        THEN [raised |-> TRUE, data |-> <<>>,
              last_disk_io |-> current_disk_io, last_net_io |-> current_net_io]
        ELSE [raised |-> FALSE,
              last_disk_io |-> current_disk_io, last_net_io |-> current_net_io,
              data |->
                ("Disk Read Rate (MB/s)" :> disk_read_rate_mb)
                @@ ("Disk Write Rate (MB/s)" :> disk_write_rate_mb)
                @@ ("Net Sent (MB/s)" :> net_sent_rate_mb)
                @@ ("Net Received (MB/s)" :> net_recv_rate_mb)
                @@ ("Network Total Connections" :> 12)
                @@ ("Disk Total Partitions" :> 3)
                @@ ("Network Packet Errors" :> current_net_io.errin + current_net_io.errout)
                @@ ("Disk I/O Latency (Sim/ms)" :>
                        IF disk_read_rate_mb + disk_write_rate_mb > 0
                        THEN Draw(200, 2000, e.u) ELSE 0)]

\* Lines 119-122: the text built for the process with the largest CPU
\* percentage, f"{name} ({cpu_percent}%)" as the sequence of its pieces; the
\* first of the largest, as sorted() is stable.  Line 109: "N/A" when there is
\* no process above 0.
TopCpuProc(procs) ==
    LET best == FoldMax([i \in 1..Len(procs) |-> TRUE],
                        [i \in 1..Len(procs) |-> procs[i].cpu_percent], 0)
    IN  IF procs # <<>> /\ best > 0
        THEN LET i == CHOOSE j \in 1..Len(procs) :
                          /\ procs[j].cpu_percent = best
                          /\ \A k \in 1..(j - 1) : procs[k].cpu_percent # best
             IN  <<procs[i].name, " (", FloatStr(procs[i].cpu_percent), "%)">>
        ELSE <<"N/A">>

\* Line 122 assigns the text to top_cpu_proc; the dict of line 128 holds
\* top_cpu_process, which stays as set on line 109.
_get_process_data(e) ==
    LET top_cpu_process == <<"N/A">>
        top_cpu_proc == TopCpuProc(e.host.procs)
    IN  IF e.fail = "process"
        THEN [raised |-> TRUE, data |-> <<>>]
        ELSE [raised |-> FALSE,
              data |->
                ("Running Processes" :> Len(e.host.procs) + 1)
                @@ ("Top CPU Process" :> top_cpu_process)
                @@ ("System Uptime (h)" :> RoundDiv((e.now + 3600) * 100, 3600))
                @@ ("Login Users" :> 1)
                @@ ("Open File Descriptors (Sim)" :> 7)]

\* dict.get(key, default)
Get(data, key, default) == IF key \in DOMAIN data THEN data[key] ELSE default

\* Line 215-216: 100 - (active_load*0.2 + temp_c*0.5 + total_io*0.1), clamped
\* by max(0, min(100, .)) and then rounded to 2 decimals.  With the inputs in
\* hundredths, integrity is exact in thousandths.
\* Mutant of CircuitryIntegrity: the clamp is missing.
CircuitryIntegrity_unclamped(active_load, temp_c, total_io) ==
    FloatStr(RoundDiv(100000 - (2 * active_load + 5 * temp_c + total_io), 10))

\* Mutant of CircuitryIntegrity: the weights of load and temperature swapped.
CircuitryIntegrity_swapped_weights(active_load, temp_c, total_io) ==
    LET integrity == 100000 - (5 * active_load + 2 * temp_c + total_io)
    IN  IF integrity >= 100000 THEN IntStr(100)
        ELSE IF integrity <= 0 THEN IntStr(0)
        ELSE FloatStr(RoundDiv(integrity, 10))

\* The text is that of a float, except that max(0, min(100, .)) yields the
\* int 0 or 100 when it clamps, which prints without decimals.
CircuitryIntegrity(active_load, temp_c, total_io) ==
    LET integrity == 100000 - (2 * active_load + 5 * temp_c + total_io)
    IN  IF integrity >= 100000 THEN IntStr(100)
        ELSE IF integrity <= 0 THEN IntStr(0)
        ELSE FloatStr(RoundDiv(integrity, 10))

\* Line 226-227: min(100, total_io*5 + active_load*0.5) rounded to 2 decimals;
\* exact in two-hundredths.  min yields the int 100 when it clamps.
Saturation(active_load, total_io) ==
    LET saturation == 10 * total_io + active_load
    IN  IF saturation >= 20000 THEN IntStr(100) ELSE FloatStr(RoundDiv(saturation, 2))

\* Line 219: int(total_io * 1024 * 1024 * 8 + r).  total_io is in hundredths, so
\* the product is total_io * 83886.08; int() truncates toward zero.
ByteTransit(total_io, r) ==
    LET floor == total_io * 83886 + r + ((total_io * 8) \div 100)
    IN  IF floor < 0 /\ (total_io * 8) % 100 # 0 THEN floor + 1 ELSE floor

\* One digit of hex(): Python prints the digits above 9 in lower case.
HexDigit(d) ==
    <<"0", "1", "2", "3", "4", "5", "6", "7", "8", "9", "a", "b", "c", "d", "e", "f">>[d + 1]

\* str.upper() on one character of a hexadecimal numeral.
Upper(ch) ==
    CASE ch = "a" -> "A" [] ch = "b" -> "B" [] ch = "c" -> "C"
      [] ch = "d" -> "D" [] ch = "e" -> "E" [] ch = "f" -> "F"
      [] OTHER -> ch

\* The n low hexadecimal digits, least significant first, of s * 10000 + carry.
\* The product is built digit by digit, since it does not fit a machine word;
\* for a negative number the digits are those of its two's complement, which
\* is what Python's & with a non-negative mask yields.
RECURSIVE MaskedDigits(_, _, _)
MaskedDigits(s, carry, n) ==
    IF n = 0 THEN <<>>
    ELSE LET v == (s % 16) * 10000 + carry
         IN  <<v % 16>> \o MaskedDigits(s \div 16, v \div 16, n - 1)

\* hex(v)[2:] of a non-negative v given by its digits, most significant first:
\* no leading zeros, "0" for zero.
RECURSIVE HexNumeral(_)
HexNumeral(ds) == IF Len(ds) > 1 /\ Head(ds) = 0 THEN HexNumeral(Tail(ds)) ELSE ds

\* Mutant of HexFlow: the numeral is left as hex() prints it, in lower case.
HexFlow_lowercase(active_load, temp_c, total_io) ==
    LET low == MaskedDigits(active_load + total_io, temp_c * 10, 10)
        numeral == HexNumeral([i \in 1..10 |-> low[11 - i]])
    IN  [prefix |-> "0x", digits |-> [i \in 1..Len(numeral) |-> HexDigit(numeral[i])]]

\* Lines 222-223: hex_flow_magnitude = int((active_load + total_io) * 1000000
\* + temp_c * 1000), which is (active_load + total_io) * 10000 + temp_c * 10 with
\* the inputs in hundredths; & 0xFFFFFFFFFF keeps its 10 low hexadecimal digits;
\* the text is "0x" and the upper-cased numeral.
HexFlow(active_load, temp_c, total_io) ==
    LET low == MaskedDigits(active_load + total_io, temp_c * 10, 10)
        numeral == HexNumeral([i \in 1..10 |-> low[11 - i]])
    IN  [prefix |-> "0x",
         digits |-> [i \in 1..Len(numeral) |-> Upper(HexDigit(numeral[i]))]]

\* Mutant of Purity: the value is clamped at 0, as the integrity is.
Purity_clamped(packet_errors, active_load) ==
    LET purity == 1000000 - (packet_errors * 100000 + 5 * active_load)
    IN  IF purity <= 0 THEN IntStr(0) ELSE FloatStr(RoundDiv(purity, 100))

\* Line 233: round(100 - (packet_errors * 10 + (active_load / 100) * 5), 2); with
\* active_load in hundredths the value is exact in ten-thousandths.
Purity(packet_errors, active_load) ==
    FloatStr(RoundDiv(1000000 - (packet_errors * 100000 + 5 * active_load), 100))

\* Lines 194-235.  u is the quantile of the three random.randint draws.
_calculate_conceptual_flux_metrics(data, u) ==
    LET cpu_u == Get(data, "CPU Usage (%)", 0)
        mem_u == Get(data, "Memory Usage (%)", 0)
        gpu_u == Get(data, "GPU Usage (%)", 0)
        temp_c == Get(data, "CPU Temp (°C)", 0)
        disk_r == Get(data, "Disk Read Rate (MB/s)", 0)
        disk_w == Get(data, "Disk Write Rate (MB/s)", 0)
        net_s == Get(data, "Net Sent (MB/s)", 0)
        net_r == Get(data, "Net Received (MB/s)", 0)
        cpu_freq == Get(data, "CPU Freq (GHz)", 0)
        total_io == disk_r + disk_w + net_s + net_r
        active_load == cpu_u + mem_u + gpu_u
    IN  ("Energetic Flux (Sim)" :>
            [num |-> FloatStr(RoundDiv(10 * active_load + 3 * temp_c, 30)), unit |-> " J/s"])
        @@ ("Transistor State Change Rate (Sim)" :>
            [int |-> TruncDiv(cpu_u * 1000 + cpu_freq * 10000 + 100 * Draw(100, 500, u), 100),
             unit |-> "/s"])
        @@ ("Circuitry Integrity (Sim)" :>
            [num |-> CircuitryIntegrity(active_load, temp_c, total_io), unit |-> "%"])
        @@ ("Binary Data Byte Transit (Sim)" :>
            [int |-> ByteTransit(total_io, Draw(1000, 100000, u)), unit |-> " B/s"])
        @@ ("Hexadecimal Energy Flow (Sim)" :> HexFlow(active_load, temp_c, total_io))
        @@ ("Software-Hardware I/O Saturation (Sim)" :>
            [num |-> Saturation(active_load, total_io), unit |-> "%"])
        @@ ("Electrical Controlled Pulses (Sim)" :>
            [int |-> cpu_freq * 10000000 + Draw(10000, 50000, u), unit |-> "/s"])
        @@ ("Unwanted Transit Purity Check (Sim)" :>
            [num |-> Purity(Get(data, "Network Packet Errors", 0), active_load),
             unit |-> "%"])
        @@ data

\* Mutant of ErrorResult: the error is added to the data collected so far.
ErrorResult_with_data == ("Error" :> "Failed to collect data") @@ _get_static_system_info

\* Line 271: the dict of a failed call.
ErrorResult == ("Error" :> "Failed to collect data")

\* Mutant of StartData: the static information is gathered anew by every call,
\* and the boot time it computes moves with the clock.
StartData_regathered(info, e) ==
    Update(Update(<<>>, ("Boot Time" :> IF e.now = 0 THEN "2024-01-01 00:00:00"
                                        ELSE "2024-01-01 00:00:01") @@ info),
           "Timestamp" :> <<"time", e.now>>)

\* Lines 247-249: data = {}; data.update(self.system_info); data["Timestamp"].
\* update copies the entries of the cached baseline into the new dict.
StartData(info, e) == Update(Update(<<>>, info), "Timestamp" :> <<"time", e.now>>)

\* Lines 242-271.  rs is the RateState on entry; the value is the RateState
\* on return and the dict returned.
get_detailed_system_data(rs, info, e) ==
    LET current_time == e.now
        time_diff == current_time - rs.last_call_time
        d1 == StartData(info, e)
        d2 == Update(d1, _get_cpu_data(e))
        d3 == Update(d2, _get_memory_data(e))
        d4 == Update(d3, _get_gpu_data(e))
        sensor == _get_sensor_data(e)
        d5 == Update(d4, sensor.data)
        io == _get_io_data(rs, time_diff, e)
        d6 == Update(d5, io.data)
        proc == _get_process_data(e)
        d7 == Update(d6, proc.data)
        failed(state) == [state EXCEPT !.ret = ErrorResult]
        s0 == [last_disk_io |-> rs.last_disk_io, last_net_io |-> rs.last_net_io,
               last_call_time |-> rs.last_call_time, ret |-> <<>>]
        s1 == [s0 EXCEPT !.last_disk_io = io.last_disk_io,
                         !.last_net_io = io.last_net_io]
        s2 == [s1 EXCEPT !.last_call_time = current_time]                \* line 259
    IN  IF e.fail \in {"cpu", "memory"} THEN failed(s0)               \* lines 252-253
        ELSE IF sensor.raised THEN failed(s0)                          \* line 255
        ELSE IF io.raised THEN failed(s1)                              \* line 258
        ELSE IF proc.raised THEN failed(s2)                            \* line 262
        ELSE [s2 EXCEPT !.ret = _calculate_conceptual_flux_metrics(d7, e.u)]

(***************************************************************************)
(* The renderer (main.py, _initialize_perf_tree and _update_perf_tree).    *)
(* The tree is the function from the attribute of a row to the value the   *)
(* row shows and its tag.  A shown value is [text |-> s] for a literal of  *)
(* the program and [str |-> v] for str(v) of a value v of the snapshot.    *)
(* An operator that is handed a dict yields, next to its result, the dict  *)
(* as the call leaves it (data): the caller's object.                      *)
(***************************************************************************)
\* Lines 148-156: the attributes of the rows, group by group.
groups ==
    [CORE_USAGE |->
        {"CPU Usage (%)", "CPU Freq (GHz)", "Logical Cores", "CPU User Time (%)",
         "CPU System Time (%)", "CPU Idle Time (%)", "CPU Interrupt Time (%)"},
     MEMORY_STATE |->
        {"Memory Usage (%)", "Used Memory (GB)", "Available Memory (GB)",
         "Cached Memory (GB)", "Swap Usage (%)", "Shared Memory (GB)"},
     GPU_STATE |-> {"GPU Usage (%)", "GPU Memory (GB)", "GPU Temp (°C)"},
     IO_TRANSIT_RATES |->                                   \* "I/O_TRANSIT_RATES"
        {"Disk Read Rate (MB/s)", "Disk Write Rate (MB/s)", "Net Sent (MB/s)",
         "Net Received (MB/s)", "Disk I/O Latency (Sim/ms)", "Network Packet Errors"},
     SYSTEM_STATE |->
        {"Running Processes", "Top CPU Process", "System Uptime (h)",
         "Open File Descriptors (Sim)", "Network Total Connections", "CPU Temp (°C)",
         "Fan Speed (%)"},
     STATIC_INFO |->
        {"Operating System", "System Architecture", "CPU Model (Sim)", "Total RAM (GB)",
         "Boot Time", "Python Version"},
     FLUX_CONCEPTUAL |->
        {"Energetic Flux (Sim) [J/s]", "Transistor State Change Rate (Sim) [Hz]",
         "Circuitry Integrity (Sim) [%]", "Binary Data Byte Transit (Sim) [B/s]",
         "Hexadecimal Energy Flow (Sim) [0x]",
         "Software-Hardware I/O Saturation (Sim) [%]",
         "Electrical Controlled Pulses (Sim) [Pulse/s]",
         "Unwanted Transit Purity Check (Sim) [%]"}]

\* Lines 164-168: self.tree_rows, the attributes that have a row.
tree_rows == UNION {groups[g] : g \in DOMAIN groups}

\* Lines 164-168: every row starts with the value "Fetching..." and the tag Normal.
_initialize_perf_tree ==
    [attr \in tree_rows |-> [value |-> [text |-> "Fetching..."], tag |-> "Normal"]]

\* Line 189: "Flux" in attr or "Transit" in attr or "Circuitry" in attr or
\* "Pulses" in attr or "Hexadecimal" in attr, for the attributes of tree_rows
\* ("Transistor ..." does not contain "Transit").
HasFluxWord(attr) ==
    attr \in {"Energetic Flux (Sim) [J/s]",
              "Binary Data Byte Transit (Sim) [B/s]",
              "Unwanted Transit Purity Check (Sim) [%]",
              "Circuitry Integrity (Sim) [%]",
              "Electrical Controlled Pulses (Sim) [Pulse/s]",
              "Hexadecimal Energy Flow (Sim) [0x]"}

\* Line 186: value = data.get(attr, "N/A"), and line 198: str(value).
ShownValue(data, attr) ==
    IF attr \in DOMAIN data THEN [str |-> data[attr]] ELSE [text |-> "N/A"]

\* isinstance(value, (int, float)) for value = data.get(attr, "N/A") of the
\* attributes of lines 191 and 193: what the collector stores under them is a
\* number, the default "N/A" is not.
IsNumber(data, attr) == attr \in DOMAIN data

\* Mutant of RowTag: a value at the threshold is tagged as well.
RowTag_at_threshold(data, attr) ==
    IF HasFluxWord(attr) THEN "FluxMetric"
    ELSE IF /\ attr \in {"CPU Usage (%)", "Memory Usage (%)", "GPU Usage (%)"}
            /\ IsNumber(data, attr)
            /\ data[attr] >= 8000
    THEN "HighUsage"
    ELSE IF attr = "CPU Temp (°C)" /\ IsNumber(data, attr) /\ data[attr] >= 8500
    THEN "HighUsage"
    ELSE "Normal"

\* Lines 187-194: the tag of the row of attr (values in hundredths).
RowTag(data, attr) ==
    IF HasFluxWord(attr) THEN "FluxMetric"
    ELSE IF /\ attr \in {"CPU Usage (%)", "Memory Usage (%)", "GPU Usage (%)"}
            /\ IsNumber(data, attr)
            /\ data[attr] > 8000
    THEN "HighUsage"
    ELSE IF attr = "CPU Temp (°C)" /\ IsNumber(data, attr) /\ data[attr] > 8500
    THEN "HighUsage"
    ELSE "Normal"

\* Mutant of _update_perf_tree: the value is read with data.setdefault(attr,
\* "N/A"), which stores the default in the snapshot.
_update_perf_tree_setdefault(tree, data) ==
    [tree |-> [attr \in tree_rows |->
                  [value |-> ShownValue(data, attr), tag |-> RowTag(data, attr)]],
     data |-> data @@ [attr \in tree_rows |-> "N/A"]]

\* Lines 178-202: the tree after the call, and the dict as the call leaves it.
\* An error dict replaces the rows by one ERROR row; a snapshot sets the value
\* and the tag of every row of tree_rows.  data is only read.
_update_perf_tree(tree, data) ==
    IF "Error" \in DOMAIN data
    THEN [tree |-> ("ERROR" :> [value |-> [str |-> data["Error"]], tag |-> "HighUsage"]),
          data |-> data]
    ELSE [tree |-> [attr \in tree_rows |->
                       [value |-> ShownValue(data, attr), tag |-> RowTag(data, attr)]],
          data |-> data]

(***************************************************************************)
(* The exporter (utils.py, save_data_to_csv).  The file is its header, the *)
(* sequence of column names, and its rows, each the sequence of the cells  *)
(* under the columns; a cell is [str |-> v] for str(v) and [text |-> ""]   *)
(* for the empty cell.  The file chosen in the dialog can be written.      *)
(***************************************************************************)
\* The order of sorted() on the key strings of the program: code point order.
KeyOrder ==
    <<"Available Memory (GB)", "Binary Data Byte Transit (Sim)", "Boot Time",
      "CPU Freq (GHz)", "CPU Idle Time (%)", "CPU Iowait Time (%)", "CPU Model (Sim)",
      "CPU System Time (%)", "CPU Temp (°C)", "CPU Usage (%)", "CPU User Time (%)",
      "Cached Memory (GB)", "Circuitry Integrity (Sim)", "Disk I/O Latency (Sim/ms)",
      "Disk Read Rate (MB/s)", "Disk Total Partitions", "Disk Write Rate (MB/s)",
      "Electrical Controlled Pulses (Sim)", "Energetic Flux (Sim)", "Error",
      "Fan Speed (%)", "GPU Memory (GB)", "GPU Temp (°C)", "GPU Usage (%)",
      "Hexadecimal Energy Flow (Sim)", "Logical Cores", "Login Users",
      "Memory Usage (%)", "Net Received (MB/s)", "Net Sent (MB/s)",
      "Network Packet Errors", "Network Total Connections",
      "Open File Descriptors (Sim)", "Operating System", "Physical Cores",
      "Python Version", "Running Processes", "Shared Memory (GB)",
      "Software-Hardware I/O Saturation (Sim)", "Swap Usage (%)",
      "System Architecture", "System Uptime (h)", "Timestamp", "Top CPU Process",
      "Total RAM (GB)", "Transistor State Change Rate (Sim)",
      "Unwanted Transit Purity Check (Sim)", "Used Memory (GB)", "Used Swap (GB)">>

\* sorted(list(S)) for a set S of key strings.
Sorted(S) == SelectSeq(KeyOrder, LAMBDA k : k \in S)

\* Mutant of all_keys: the keys of the first snapshot only.
all_keys_first_row(data) == Sorted(DOMAIN data[1])

\* Line 18: all_keys = sorted(list(set.union(*map(set, data))))
all_keys(data) == Sorted(UNION {DOMAIN data[i] : i \in 1..Len(data)})

\* csv.DictWriter.writerow: the cells of row under fieldnames; a key the row
\* does not have gives the empty cell (restval).
writerow(fieldnames, row) ==
    [c \in 1..Len(fieldnames) |->
        IF fieldnames[c] \in DOMAIN row THEN [str |-> row[fieldnames[c]]]
        ELSE [text |-> ""]]

\* Lines 7-28: nothing is written for an empty list; otherwise the header and
\* one row for every dict of data, in the order of data.  data is only read.
save_data_to_csv(data) ==
    IF data = <<>>
    THEN [written |-> FALSE, file |-> <<>>, data |-> data]
    ELSE [written |-> TRUE,
          file |-> [header |-> all_keys(data),
                    rows |-> [i \in 1..Len(data) |-> writerow(all_keys(data), data[i])]],
          data |-> data]

(***************************************************************************)
(* The analysis client (ai_integration.py, GeminiAIIntegration).  A call   *)
(* yields raised (an exception leaves the call), the report returned, and  *)
(* the dict it was handed as the call leaves it.  None is "None".          *)
(***************************************************************************)
\* Lines 1-9: the names the module binds.  "import google as genai" binds
\* genai, not google; random, platform and APIError are bound nowhere.
ModuleNames == {"genai", "logging", "time", "json", "logger", "GeminiAIIntegration"}

\* Evaluating a name that is not bound raises NameError.
Bound(name) == name \in ModuleNames

\* Lines 20-41: the fields after set_api_key(api_key), and whether it raised.
\* Line 25 evaluates google; the NameError is caught at line 30 and ValueError
\* is raised at line 35.
set_api_key(key) ==
    IF key # "" /\ key # "YOUR_GEMINI_API_KEY"
    THEN IF Bound("google")
         THEN [api_key |-> key, ai_enabled |-> TRUE, raised |-> FALSE]
         ELSE [api_key |-> key, ai_enabled |-> FALSE, raised |-> TRUE]
    ELSE [api_key |-> "None", ai_enabled |-> FALSE, raised |-> FALSE]

\* Lines 43-82.  Line 61 evaluates platform when the load is critical, lines 67
\* and 81 evaluate random.
_generate_simulated_response(system_data, u) ==
    LET cpu_u == Get(system_data, "CPU Usage (%)", 0)
        mem_u == Get(system_data, "Memory Usage (%)", 0)
        temp_c == Get(system_data, "CPU Temp (°C)", 0)
        critical == cpu_u > 7000 /\ temp_c > 8000
        response_content ==
            [analysis |-> IF critical THEN "System Status: CRITICAL."
                          ELSE "System Status: Nominal.",
             root_cause |-> IF critical THEN "Sustained high CPU usage"
                            ELSE "No critical root causes.",
             optimization_suggestions |->
                (IF critical THEN <<"IMMEDIATELY check cooling system">> ELSE <<>>)
                \o <<"Monitor high-usage applications", "Run a routine disk cleanup.">>,
             correction_commands |->
                IF critical THEN <<"killall -9 top_process">> ELSE <<>>,
             hardware_enhancements |->
                (IF critical THEN <<"HIGH PRIORITY: Upgrade cooler">> ELSE <<>>)
                \o <<"Evaluate RAM frequency upgrade", "Consider upgrading to NVMe">>,
             conceptual_enhancements |->
                <<<<"AI-Driven Optimization of Transistor Gating Logic">>,
                  <<"Software-Hardware Flux Stabilization: ",
                    FloatStr(RoundDiv(Draw(500, 1500, u), 10) * 10), "%.">>,
                  <<"Enhancing Electrical Controlled Pulses">>>>,
             generated_by |-> "Simulated AI Algorithm v2.0 (High Detail)"]
    IN  IF critical /\ ~Bound("platform")                                  \* line 61
        THEN [raised |-> TRUE, report |-> <<>>, system_data |-> system_data]
        ELSE IF ~Bound("random")                                           \* line 67
        THEN [raised |-> TRUE, report |-> <<>>, system_data |-> system_data]
        ELSE [raised |-> FALSE, report |-> response_content,
              system_data |-> system_data]

\* What the remote call of lines 113-128 does: the reply parses as JSON, or
\* the call raises (transport, quota), or the reply does not parse.
RemoteOutcomes == {"parsed", "api_error", "json_error", "other_error"}

\* The reply of the remote model, parsed.
RemoteReport ==
    [analysis |-> "remote", root_cause |-> "remote",
     optimization_suggestions |-> <<>>, correction_commands |-> <<>>,
     hardware_enhancements |-> <<>>, conceptual_enhancements |-> <<>>]

\* Lines 84-140.  An exception raised in the try block is first matched
\* against "except APIError" (line 132), which evaluates APIError.
call_gemini_api(enabled, remote, system_data, u) ==
    IF ~enabled THEN _generate_simulated_response(system_data, u)   \* lines 89-90
    ELSE IF remote = "parsed"
    THEN [raised |-> FALSE, report |-> RemoteReport, system_data |-> system_data]
    ELSE IF ~Bound("APIError")
    THEN [raised |-> TRUE, report |-> <<>>, system_data |-> system_data]
    ELSE _generate_simulated_response(system_data, u)

(***************************************************************************)
(* The collector as a state machine: __init__ and the calls of             *)
(* get_detailed_system_data, one call per step.                            *)
(***************************************************************************)
\* Whether the call observing e gets as far as line 85, line 93, line 259.
ReachesIo(e) == e.fail \notin {"cpu", "memory"} /\ ~_get_sensor_data(e).raised

StoresDisk(e) == ReachesIo(e) /\ e.fail # "disk_io_counters"

StoresNet(e) == StoresDisk(e) /\ e.fail # "net_io_counters"

StoresTime(e) == StoresNet(e) /\ e.fail # "net_connections"

RateState ==
    [last_disk_io |-> last_disk_io, last_net_io |-> last_net_io,
     last_call_time |-> last_call_time]

IsError(ret) == "Error" \in DOMAIN ret

IsSnapshot(ret) == ret # <<>> /\ ~IsError(ret)

\* Observations in which the I/O counters, the clock and the failing query vary.
IoObservations ==
    [now : 0..MaxTime, fail : FailPoints, disk : DiskCounters, net : NetCounters,
     host : {ScenarioHost}, u : {1}]

\* Observations in which the capabilities of the host and the random draws vary.
HostObservations ==
    [now : {1}, fail : {"none"},
     disk : {[read_bytes |-> 1000000, write_bytes |-> 500000]},
     net : {[bytes_sent |-> 0, bytes_recv |-> 2097152, errin |-> 0, errout |-> 0]},
     host : Hosts, u : {0, 2}]

\* Lines 26-36 (SystemMonitor.__init__), lines 40-51 of main.py and lines
\* 15-17 of ai_integration.py, but for result, which is not a field of the
\* program, and for the two containers a specification may draw as inputs
\* (data_history, gui_pending).
InitFields ==
    /\ last_net_io = [bytes_sent |-> 0, bytes_recv |-> 2097152, errin |-> 0, errout |-> 0]
    /\ last_disk_io = [read_bytes |-> 1000000, write_bytes |-> 500000]
    /\ last_call_time = 0
    /\ system_info = _get_static_system_info
    /\ disk_synced = TRUE
    /\ net_synced = TRUE
    /\ prev_keys = {}
    /\ observed_host = <<>>
    /\ monitoring_active = FALSE
    /\ stop_event = FALSE
    /\ monitoring_thread = 0
    /\ thread_pc = [t \in 1..MaxThreads |-> "unborn"]
    /\ gui_pc = "idle"
    /\ data_snapshot = [t \in 1..MaxThreads |-> [ret |-> <<>>, serial |-> 0]]
    /\ nsampled = 0
    /\ history_serials = <<>>
    /\ gui_updates = 0
    /\ error_log = 0
    /\ ai_jobs = <<>>
    /\ ai_report = <<>>
    /\ returned = <<>>
    /\ ai_job_serials = <<>>
    /\ len_at_stop = 0
    /\ perf_tree = _initialize_perf_tree
    /\ csv_file = <<>>
    /\ api_key = "None"
    /\ ai_enabled = FALSE

Init == result = <<>> /\ data_history = <<>> /\ gui_pending = <<>> /\ InitFields

\* One call of get_detailed_system_data observing e.  The history variables
\* follow the assignments of lines 85, 93 and 259.
Sample(e) ==
    \E out \in {get_detailed_system_data(RateState, system_info, e)} :
        /\ last_disk_io' = out.last_disk_io
        /\ last_net_io' = out.last_net_io
        /\ last_call_time' = out.last_call_time
        /\ result' = out.ret
        /\ disk_synced' = IF StoresTime(e) THEN TRUE
                          ELSE IF StoresDisk(e) THEN FALSE ELSE disk_synced
        /\ net_synced' = IF StoresTime(e) THEN TRUE
                         ELSE IF StoresNet(e) THEN FALSE ELSE net_synced
        /\ prev_keys' = IF IsSnapshot(result) THEN DOMAIN result ELSE prev_keys
        /\ observed_host' = [host |-> e.host, u |-> e.u]
        /\ UNCHANGED system_info

SampleIO == (\E e \in IoObservations : Sample(e)) /\ UNCHANGED app_vars

SampleHost == (\E e \in HostObservations : Sample(e)) /\ UNCHANGED app_vars

Next == SampleIO

Spec == Init /\ [][Next]_vars

NextHost == SampleHost

SpecHost == Init /\ [][NextHost]_vars

(***************************************************************************)
(* The derived indicators as a pure function: the inputs are drawn by      *)
(* InitFlux, ApplyFlux applies _calculate_conceptual_flux_metrics to them. *)
(***************************************************************************)
FluxInputs ==
    { ("CPU Usage (%)" :> c) @@ ("Memory Usage (%)" :> m) @@ ("GPU Usage (%)" :> g)
      @@ ("CPU Temp (°C)" :> t) @@ ("Disk Read Rate (MB/s)" :> io[1])
      @@ ("Disk Write Rate (MB/s)" :> io[2]) @@ ("Net Sent (MB/s)" :> io[3])
      @@ ("Net Received (MB/s)" :> io[4]) @@ ("CPU Freq (GHz)" :> f)
      @@ ("Network Packet Errors" :> p) :
        c \in {0, 9000, 10000}, m \in {0, 8500, 10000}, g \in {10, 1000, 10000},
        t \in {10, 8800, 20000},
        io \in {<<0, 0, 0, 0>>, <<1250, 1250, 1250, 1250>>, <<-195, 0, -50, 0>>,
                <<195, 100, 0, 5>>, <<19531, 0, 0, 0>>},
        f \in {0, 150}, p \in {0, 11} }

InitFlux == result \in FluxInputs /\ data_history = <<>> /\ gui_pending = <<>> /\ InitFields

ApplyFlux ==
    /\ "Circuitry Integrity (Sim)" \notin DOMAIN result
    /\ \E u \in RandomLevels : result' = _calculate_conceptual_flux_metrics(result, u)
    /\ UNCHANGED <<last_disk_io, last_net_io, last_call_time, system_info,
                   disk_synced, net_synced, prev_keys, observed_host>>
    /\ UNCHANGED app_vars

NextFlux == ApplyFlux

SpecFlux == InitFlux /\ [][NextFlux]_vars

(***************************************************************************)
(* The Hexadecimal Energy Flow text alone (lines 221-223), on inputs that  *)
(* the other indicators cannot take in machine integers: InitHex draws     *)
(* active_load, temp_c and total_io, ApplyHex applies HexFlow to them.     *)
(***************************************************************************)
HexInputs ==
    [active_load : {0, 18500, 30000},
     temp_c : {0, 10, 8800, 20000},
     total_io : {0, 5000, -195, -40000, 109951163, 150000000, 214000000}]

InitHex == result \in HexInputs /\ data_history = <<>> /\ gui_pending = <<>> /\ InitFields

ApplyHex ==
    /\ "Hexadecimal Energy Flow (Sim)" \notin DOMAIN result
    /\ result' = ("Hexadecimal Energy Flow (Sim)" :>
                      HexFlow(result.active_load, result.temp_c, result.total_io))
                  @@ result
    /\ UNCHANGED <<last_disk_io, last_net_io, last_call_time, system_info,
                   disk_synced, net_synced, prev_keys, observed_host>>
    /\ UNCHANGED app_vars

NextHex == ApplyHex

SpecHex == InitHex /\ [][NextHex]_vars

(***************************************************************************)
(* The application (main.py): the GUI thread's handlers, the monitor        *)
(* threads and the analysis workers.  A handler is one step, except        *)
(* _apply_interval, which is a step for each of its two calls: the other   *)
(* threads run between them.  A monitor thread is at "loop" (line 368),    *)
(* "sampling" (inside get_detailed_system_data, line 370), "sampled" (the  *)
(* call has returned, line 372), "waiting" (line 383) or "done".  The call *)
(* of a thread takes effect in one step, at its return; which threads are  *)
(* inside the call at the same time is visible in thread_pc.               *)
(***************************************************************************)
Threads == 1..MaxThreads

\* The observations of the calls made by the monitor threads.
ThreadObservations ==
    [now : {1, 2}, fail : {"none", "process"},
     disk : {[read_bytes |-> 1000000, write_bytes |-> 500000]},
     net : {[bytes_sent |-> 0, bytes_recv |-> 2097152, errin |-> 0, errout |-> 0]},
     host : {BareHost}, u : {1}]

\* Lines 341-345: the body of start_monitoring when monitoring is not active;
\* t is the thread it creates and starts.
StartBody(t) ==
    /\ thread_pc[t] = "unborn"
    /\ \A k \in Threads : k < t => thread_pc[k] # "unborn"
    /\ monitoring_active' = TRUE
    /\ stop_event' = FALSE
    /\ monitoring_thread' = t
    /\ thread_pc' = [thread_pc EXCEPT ![t] = "loop"]
    /\ UNCHANGED len_at_stop

\* Lines 352-358: the body of stop_monitoring when monitoring is active; the
\* thread is not joined.
StopBody ==
    /\ monitoring_active' = FALSE
    /\ stop_event' = TRUE
    /\ len_at_stop' = Len(data_history)
    /\ UNCHANGED <<monitoring_thread, thread_pc>>

start_monitoring ==
    /\ gui_pc = "idle"
    /\ ~monitoring_active
    /\ \E t \in Threads : StartBody(t)
    /\ UNCHANGED <<gui_pc, loop_vars, ai_vars, panel_vars>>
    /\ UNCHANGED monitor_vars

stop_monitoring ==
    /\ gui_pc = "idle"
    /\ monitoring_active
    /\ StopBody
    /\ UNCHANGED <<gui_pc, loop_vars, ai_vars, panel_vars>>
    /\ UNCHANGED monitor_vars

\* Lines 304-305: _apply_interval while monitoring is active, up to the return
\* of stop_monitoring().
_apply_interval_stop ==
    /\ gui_pc = "idle"
    /\ monitoring_active
    /\ StopBody
    /\ gui_pc' = "apply_start"
    /\ UNCHANGED <<loop_vars, ai_vars, panel_vars>>
    /\ UNCHANGED monitor_vars

\* Line 306: the start_monitoring() call of _apply_interval.
_apply_interval_start ==
    /\ gui_pc = "apply_start"
    /\ \E t \in Threads : StartBody(t)
    /\ gui_pc' = "idle"
    /\ UNCHANGED <<loop_vars, ai_vars, panel_vars>>
    /\ UNCHANGED monitor_vars

\* Line 368: the test of the while loop; line 370: the call is entered.
_monitor_loop_test(t) ==
    /\ thread_pc[t] = "loop"
    /\ thread_pc' = [thread_pc EXCEPT ![t] = IF stop_event THEN "done" ELSE "sampling"]
    /\ UNCHANGED <<monitoring_active, stop_event, monitoring_thread, gui_pc, len_at_stop>>
    /\ UNCHANGED <<loop_vars, ai_vars, panel_vars>>
    /\ UNCHANGED monitor_vars

\* Line 370: get_detailed_system_data returns into the thread's data_snapshot.
\* A run has at most MaxHistory successful samples.
_monitor_loop_sample(t) ==
    /\ thread_pc[t] = "sampling"
    /\ \E e \in ThreadObservations :
          /\ e.fail = "none" => nsampled < MaxHistory
          /\ Sample(e)
    /\ nsampled' = IF IsError(result') THEN nsampled ELSE nsampled + 1
    /\ returned' = IF IsError(result') THEN returned ELSE Append(returned, result')
    /\ data_snapshot' =
          [data_snapshot EXCEPT
             ![t] = [ret |-> result', serial |-> IF IsError(result') THEN 0 ELSE nsampled']]
    /\ thread_pc' = [thread_pc EXCEPT ![t] = "sampled"]
    /\ UNCHANGED <<monitoring_active, stop_event, monitoring_thread, gui_pc, len_at_stop>>
    /\ UNCHANGED <<data_history, history_serials, gui_updates, error_log, gui_pending>>
    /\ UNCHANGED <<ai_vars, panel_vars>>

\* Lines 372-381: the snapshot is appended to data_history and its display is
\* scheduled, or the error is logged; the thread goes to wait.
_monitor_loop_record(t) ==
    /\ thread_pc[t] = "sampled"
    /\ IF ~IsError(data_snapshot[t].ret)
       THEN /\ data_history' = Append(data_history, data_snapshot[t].ret)
            /\ history_serials' = Append(history_serials, data_snapshot[t].serial)
            /\ gui_updates' = gui_updates + 1
            /\ gui_pending' = Append(gui_pending, data_snapshot[t])
            /\ UNCHANGED error_log
       ELSE /\ error_log' = Min(error_log + 1, MaxLog)
            /\ UNCHANGED <<data_history, history_serials, gui_updates, gui_pending>>
    /\ thread_pc' = [thread_pc EXCEPT ![t] = "waiting"]
    /\ UNCHANGED <<monitoring_active, stop_event, monitoring_thread, gui_pc, len_at_stop>>
    /\ UNCHANGED <<data_snapshot, nsampled, returned, ai_vars, panel_vars>>
    /\ UNCHANGED monitor_vars

\* Line 383: Event.wait returns, the event being set or the interval over.
_monitor_loop_wait(t) ==
    /\ thread_pc[t] = "waiting"
    /\ thread_pc' = [thread_pc EXCEPT ![t] = "loop"]
    /\ UNCHANGED <<monitoring_active, stop_event, monitoring_thread, gui_pc, len_at_stop>>
    /\ UNCHANGED <<loop_vars, ai_vars, panel_vars>>
    /\ UNCHANGED monitor_vars

NextThreads ==
    \/ start_monitoring
    \/ stop_monitoring
    \/ _apply_interval_stop
    \/ _apply_interval_start
    \/ \E t \in Threads : _monitor_loop_test(t)
    \/ \E t \in Threads : _monitor_loop_sample(t)
    \/ \E t \in Threads : _monitor_loop_record(t)
    \/ \E t \in Threads : _monitor_loop_wait(t)

SpecThreads == Init /\ [][NextThreads]_vars

\* Monitor thread t moves on from where it is in _monitor_loop: it takes its
\* next step, whichever that is.
Advance(t) ==
    /\ thread_pc[t] \in {"loop", "sampling", "sampled", "waiting"}
    /\ \E pc \in {"loop", "sampling", "sampled", "waiting", "done"} :
          /\ pc # thread_pc[t]
          /\ thread_pc' = [thread_pc EXCEPT ![t] = pc]

\* The monitor threads are scheduled: a thread inside _monitor_loop does not
\* stay where it is for ever (the call returns, the wait times out).
SpecThreadsFair == SpecThreads /\ \A t \in Threads : WF_thread_pc(Advance(t))

(***************************************************************************)
(* The on-demand analysis next to one monitoring run: monitoring is        *)
(* started and the user triggers analyses and clears the history while the *)
(* monitor thread samples.                                                 *)
(***************************************************************************)
\* Mutant of latest_data: the oldest snapshot of the history.
latest_data_oldest(history) == history[1]

\* Line 404: latest_data = self.data_history[-1]
latest_data(history) == history[Len(history)]

\* Lines 399-406: run_ai_enhancement while monitoring is active and the history
\* is not empty: a worker thread is started on the latest snapshot.
run_ai_enhancement ==
    /\ gui_pc = "idle"
    /\ monitoring_active
    /\ data_history # <<>>
    /\ Len(ai_jobs) < MaxWorkers
    /\ ai_jobs' = Append(ai_jobs, latest_data(data_history))
    /\ ai_job_serials' = Append(ai_job_serials, latest_data(history_serials))
    /\ UNCHANGED <<monitoring_active, stop_event, monitoring_thread, thread_pc, gui_pc,
                   len_at_stop>>
    /\ UNCHANGED <<loop_vars, ai_report, panel_vars>>
    /\ UNCHANGED monitor_vars

\* The history after a call that was handed the snapshot with the serial
\* number serial and leaves it as data: the entry of the history is that object.
Stored(history, serials, serial, data) ==
    [i \in 1..Len(history) |-> IF serials[i] = serial THEN data ELSE history[i]]

\* Lines 412-421: a worker thread ends.  call_gemini_api(data_snapshot) has
\* returned and the report is handed to the GUI with the snapshot's timestamp
\* (shown), or it has raised and the error box is shown.
_ai_analysis_worker ==
    /\ \E i \in 1..Len(ai_jobs) : \E remote \in RemoteOutcomes : \E u \in RandomLevels :
          \E out \in {call_gemini_api(ai_enabled, remote, ai_jobs[i], u)} :
             /\ ai_report' = [timestamp |-> ai_jobs[i]["Timestamp"],
                              shown |-> ~out.raised, response |-> out.report]
             /\ ai_jobs' = [j \in 1..(Len(ai_jobs) - 1) |->
                               IF j < i THEN ai_jobs[j] ELSE ai_jobs[j + 1]]
             /\ ai_job_serials' = [j \in 1..(Len(ai_jobs) - 1) |->
                                      IF j < i THEN ai_job_serials[j]
                                      ELSE ai_job_serials[j + 1]]
             /\ data_history' = Stored(data_history, history_serials, ai_job_serials[i],
                                       out.system_data)
    /\ UNCHANGED <<monitoring_active, stop_event, monitoring_thread, thread_pc, gui_pc,
                   len_at_stop>>
    /\ UNCHANGED <<data_snapshot, nsampled, history_serials, gui_updates, error_log,
                   returned, gui_pending>>
    /\ UNCHANGED panel_vars
    /\ UNCHANGED monitor_vars

\* Line 471: clear_all_history, confirmed by the user.
clear_all_history ==
    /\ gui_pc = "idle"
    /\ data_history # <<>>
    /\ data_history' = <<>>
    /\ history_serials' = <<>>
    /\ UNCHANGED <<monitoring_active, stop_event, monitoring_thread, thread_pc, gui_pc,
                   len_at_stop>>
    /\ UNCHANGED <<data_snapshot, nsampled, gui_updates, error_log, returned, gui_pending>>
    /\ UNCHANGED <<ai_vars, panel_vars>>
    /\ UNCHANGED monitor_vars

NextAnalysis ==
    \/ start_monitoring
    \/ \E t \in Threads : _monitor_loop_test(t)
    \/ \E t \in Threads : _monitor_loop_sample(t)
    \/ \E t \in Threads : _monitor_loop_record(t)
    \/ \E t \in Threads : _monitor_loop_wait(t)
    \/ run_ai_enhancement
    \/ _ai_analysis_worker
    \/ clear_all_history

SpecAnalysis == Init /\ [][NextAnalysis]_vars

(***************************************************************************)
(* The consumers of the snapshots next to one monitoring run: the display  *)
(* calls the monitor thread schedules run in the GUI thread, in the order  *)
(* in which they were scheduled, and the user saves the history.           *)
(***************************************************************************)
\* Lines 385-393: the GUI thread runs the oldest scheduled call.  The tree is
\* updated from the snapshot d the call holds; the summary that is logged reads
\* entries of d that every snapshot has.
_update_gui_displays ==
    /\ gui_pc = "idle"
    /\ gui_pending # <<>>
    /\ \E out \in {_update_perf_tree(perf_tree, Head(gui_pending).ret)} :
          /\ perf_tree' = out.tree
          /\ data_history' = Stored(data_history, history_serials,
                                    Head(gui_pending).serial, out.data)
    /\ gui_pending' = Tail(gui_pending)
    /\ UNCHANGED <<monitoring_active, stop_event, monitoring_thread, thread_pc, gui_pc,
                   len_at_stop>>
    /\ UNCHANGED <<data_snapshot, nsampled, history_serials, gui_updates, error_log,
                   returned>>
    /\ UNCHANGED <<ai_vars, csv_file, api_key, ai_enabled>>
    /\ UNCHANGED monitor_vars

\* Lines 477-485: the latest snapshot is saved, the user having chosen a file.
save_current_data_csv ==
    /\ gui_pc = "idle"
    /\ data_history # <<>>
    /\ \E out \in {save_data_to_csv(<<latest_data(data_history)>>)} :
          /\ csv_file' = out.file
          /\ data_history' = [data_history EXCEPT ![Len(data_history)] = out.data[1]]
    /\ UNCHANGED <<monitoring_active, stop_event, monitoring_thread, thread_pc, gui_pc,
                   len_at_stop>>
    /\ UNCHANGED <<data_snapshot, nsampled, history_serials, gui_updates, error_log,
                   returned, gui_pending>>
    /\ UNCHANGED <<ai_vars, perf_tree, api_key, ai_enabled>>
    /\ UNCHANGED monitor_vars

\* Lines 492-499: the whole history is saved, the user having chosen a file.
save_all_history_csv ==
    /\ gui_pc = "idle"
    /\ data_history # <<>>
    /\ \E out \in {save_data_to_csv(data_history)} :
          /\ csv_file' = out.file
          /\ data_history' = out.data
    /\ UNCHANGED <<monitoring_active, stop_event, monitoring_thread, thread_pc, gui_pc,
                   len_at_stop>>
    /\ UNCHANGED <<data_snapshot, nsampled, history_serials, gui_updates, error_log,
                   returned, gui_pending>>
    /\ UNCHANGED <<ai_vars, perf_tree, api_key, ai_enabled>>
    /\ UNCHANGED monitor_vars

\* The keys the user may have typed into the API key field.
ApiKeys == {"YOUR_GEMINI_API_KEY", "AIzaSy-key"}

\* Lines 280-293: _set_api_key with a key in the field; the ValueError of
\* set_api_key ends in an error box.
_set_api_key ==
    /\ gui_pc = "idle"
    /\ \E key \in ApiKeys : \E out \in {set_api_key(key)} :
          /\ api_key' = out.api_key
          /\ ai_enabled' = out.ai_enabled
    /\ UNCHANGED <<monitoring_active, stop_event, monitoring_thread, thread_pc, gui_pc,
                   len_at_stop>>
    /\ UNCHANGED <<loop_vars, ai_vars, perf_tree, csv_file>>
    /\ UNCHANGED monitor_vars

NextConsumers ==
    \/ start_monitoring
    \/ \E t \in Threads : _monitor_loop_test(t)
    \/ \E t \in Threads : _monitor_loop_sample(t)
    \/ \E t \in Threads : _monitor_loop_record(t)
    \/ \E t \in Threads : _monitor_loop_wait(t)
    \/ run_ai_enhancement
    \/ _ai_analysis_worker
    \/ clear_all_history
    \/ _update_gui_displays
    \/ save_current_data_csv
    \/ save_all_history_csv

SpecConsumers == Init /\ [][NextConsumers]_vars

(***************************************************************************)
(* The analysis client next to one monitoring run: the user sets the API   *)
(* key and triggers analyses.                                              *)
(***************************************************************************)
NextClient ==
    \/ start_monitoring
    \/ \E t \in Threads : _monitor_loop_test(t)
    \/ \E t \in Threads : _monitor_loop_sample(t)
    \/ \E t \in Threads : _monitor_loop_record(t)
    \/ \E t \in Threads : _monitor_loop_wait(t)
    \/ _set_api_key
    \/ run_ai_enhancement
    \/ _ai_analysis_worker

SpecClient == Init /\ [][NextClient]_vars

(***************************************************************************)
(* The renderer alone: InitRender draws the snapshot of one scheduled      *)
(* display call from what the collector returns on hosts whose readings    *)
(* lie at and around the thresholds, _update_gui_displays renders it.      *)
(***************************************************************************)
GpuAtThreshold == [lib |-> "device", load |-> 8000, memoryUsed |-> 2048, temperature |-> 6650]

GpuOverThreshold == [lib |-> "device", load |-> 8001, memoryUsed |-> 2048, temperature |-> 6650]

TempsAtThreshold == [g \in {"coretemp"} |-> <<[label |-> "Core 0", current |-> 8500]>>]

TempsOverThreshold == [g \in {"coretemp"} |-> <<[label |-> "Core 0", current |-> 8510]>>]

RenderObservations ==
    [now : {1}, fail : {"none"},
     disk : {[read_bytes |-> 1000000, write_bytes |-> 500000]},
     net : {[bytes_sent |-> 0, bytes_recv |-> 2097152, errin |-> 0, errout |-> 0]},
     host : [cpu_percent : {0, 8000, 8010},
             cpu_freq : {1500},
             mem_percent : {8000, 8010},
             gpu : {GpuAbsent, GpuAtThreshold, GpuOverThreshold},
             sensor_apis : {AllSensorApis},
             temps : {NoTemps, TempsAtThreshold, TempsOverThreshold},
             fans : {NoFans},
             procs : {SomeProcs}],
     u : {0, 2}]

\* What the first call of a new SystemMonitor returns on the observation e.
FirstSnapshot(e) ==
    get_detailed_system_data(
        [last_disk_io |-> [read_bytes |-> 1000000, write_bytes |-> 500000],
         last_net_io |-> [bytes_sent |-> 0, bytes_recv |-> 2097152,
                          errin |-> 0, errout |-> 0],
         last_call_time |-> 0],
        _get_static_system_info, e).ret

RenderInputs == {FirstSnapshot(e) : e \in RenderObservations}

InitRender ==
    /\ result = <<>>
    /\ data_history = <<>>
    /\ gui_pending \in {<<[ret |-> d, serial |-> 1]>> : d \in RenderInputs}
    /\ InitFields

NextRender == _update_gui_displays

SpecRender == InitRender /\ [][NextRender]_vars

(***************************************************************************)
(* The exporter alone: InitCsv draws the history from lists of dicts with  *)
(* equal and with differing key sets, the save handlers write it.          *)
(***************************************************************************)
MaxRows == 2         \* dicts of a history drawn for the exporter

\* The dicts of the drawn histories: every choice of entries out of a
\* timestamp, a number and a text.
CsvDicts ==
    { ts @@ cpu @@ top :
        ts \in {<<>>, "Timestamp" :> <<"time", 1>>, "Timestamp" :> <<"time", 2>>},
        cpu \in {<<>>, "CPU Usage (%)" :> 0, "CPU Usage (%)" :> 9000},
        top \in {<<>>, "Top CPU Process" :> <<"N/A">>} }

CsvInputs == UNION {[1..n -> CsvDicts] : n \in 1..MaxRows}

InitCsv ==
    /\ result = <<>>
    /\ data_history \in CsvInputs
    /\ gui_pending = <<>>
    /\ InitFields

NextCsv == save_current_data_csv \/ save_all_history_csv

SpecCsv == InitCsv /\ [][NextCsv]_vars

(***************************************************************************)
(* Properties.                                                             *)
(***************************************************************************)
ReadRate(ret) == ret["Disk Read Rate (MB/s)"]

WriteRate(ret) == ret["Disk Write Rate (MB/s)"]

SentRate(ret) == ret["Net Sent (MB/s)"]

RecvRate(ret) == ret["Net Received (MB/s)"]

\* rate (hundredths of a MB/s) is bytes / t / 2^20 rounded to 2 decimals: it
\* is within 0.005 of the exact quotient.
IsRoundedRate(rate, bytes, t) == 2 * Abs(rate * t * MiB - bytes * 100) <= t * MiB

\* C1: a call that returns the error result leaves last_disk_io, last_net_io
\* and last_call_time as they were before the call, whichever sub-stage raised.
C1_FailureLeavesRateState == [][IsError(result') => rate_vars' = rate_vars]_vars

\* The attribute keys of a snapshot: static info and timestamp, CPU, memory,
\* GPU, sensors, I/O, process state and the eight derived indicators.
DocumentedKeys ==
    {"Operating System", "System Architecture", "CPU Model (Sim)", "Python Version",
     "Total RAM (GB)", "Boot Time", "Timestamp",
     "CPU Usage (%)", "CPU Freq (GHz)", "Logical Cores", "Physical Cores",
     "CPU User Time (%)", "CPU System Time (%)", "CPU Idle Time (%)",
     "CPU Iowait Time (%)",
     "Memory Usage (%)", "Used Memory (GB)", "Available Memory (GB)",
     "Cached Memory (GB)", "Swap Usage (%)", "Used Swap (GB)", "Shared Memory (GB)",
     "GPU Usage (%)", "GPU Memory (GB)", "GPU Temp (°C)",
     "CPU Temp (°C)", "Fan Speed (%)",
     "Disk Read Rate (MB/s)", "Disk Write Rate (MB/s)", "Net Sent (MB/s)",
     "Net Received (MB/s)", "Network Total Connections", "Disk Total Partitions",
     "Network Packet Errors", "Disk I/O Latency (Sim/ms)",
     "Running Processes", "Top CPU Process", "System Uptime (h)", "Login Users",
     "Open File Descriptors (Sim)",
     "Energetic Flux (Sim)", "Transistor State Change Rate (Sim)",
     "Circuitry Integrity (Sim)", "Binary Data Byte Transit (Sim)",
     "Hexadecimal Energy Flow (Sim)", "Software-Hardware I/O Saturation (Sim)",
     "Electrical Controlled Pulses (Sim)", "Unwanted Transit Purity Check (Sim)"}

\* C2: what a call returns is either a map with exactly the attribute keys (and
\* no "Error" key) or the map with the single "Error" entry; a sub-stage that
\* raises never yields a partly filled map.
C2_SnapshotOrErrorOnly ==
    \/ result = <<>>
    \/ DOMAIN result = {"Error"}
    \/ DOMAIN result = DocumentedKeys

\* C2 witness: a sub-stage raised in the middle of the I/O stage and the caller
\* got the error map.
C2_Witness == IsError(result) /\ ~disk_synced /\ DOMAIN result = {"Error"}

\* C3: every call that reports rates computed them from a counter baseline
\* and a time baseline that were stored by one and the same earlier call.
C3_RatesFromOneBaselineCall ==
    [][IsSnapshot(result') => disk_synced /\ net_synced]_vars

\* C5: a successful call yields the same key set as the successful call before
\* it, whatever GPU and sensors the two calls found.
C5_KeySetStable == IsSnapshot(result) /\ prev_keys # {} => DOMAIN result = prev_keys

\* C5 witness: a snapshot taken from a real GPU device and real sensors, after
\* an earlier successful call.
C5_Witness ==
    /\ IsSnapshot(result)
    /\ prev_keys # {}
    /\ result["GPU Memory (GB)"] = 200
    /\ result["CPU Temp (°C)"] = 8800

\* C6: a successful call whose elapsed time is <= 0 reports 0.0 for all four
\* rates, whatever the previous and current counters are.
C6_NoElapsedTimeZeroRates ==
    [][IsSnapshot(result') /\ last_call_time' - last_call_time <= 0
       => /\ ReadRate(result') = 0
          /\ WriteRate(result') = 0
          /\ SentRate(result') = 0
          /\ RecvRate(result') = 0]_vars

\* C6 witness: the first call came in the second of __init__ (elapsed time 0)
\* with the disk read counter advanced, and reported the rate 0.0.
C6_Witness ==
    /\ IsSnapshot(result)
    /\ last_call_time = 0
    /\ last_disk_io.read_bytes = 3048000
    /\ ReadRate(result) = 0

\* C7: with elapsed time t > 0 every rate is (current - previous) / t / 2^20
\* rounded to 2 decimals, previous being the counter RateState held on entry.
C7_RateFormula ==
    [][IsSnapshot(result') /\ last_call_time' - last_call_time > 0
       => LET t == last_call_time' - last_call_time
          IN  /\ IsRoundedRate(ReadRate(result'),
                               last_disk_io'.read_bytes - last_disk_io.read_bytes, t)
              /\ IsRoundedRate(WriteRate(result'),
                               last_disk_io'.write_bytes - last_disk_io.write_bytes, t)
              /\ IsRoundedRate(SentRate(result'),
                               last_net_io'.bytes_sent - last_net_io.bytes_sent, t)
              /\ IsRoundedRate(RecvRate(result'),
                               last_net_io'.bytes_recv - last_net_io.bytes_recv, t)]_vars

\* C7 witness: 2,048,000 bytes read in 2 seconds, reported as 0.98 MB/s.
C7_Witness ==
    /\ IsSnapshot(result)
    /\ last_call_time = 2
    /\ last_disk_io.read_bytes = 3048000
    /\ ReadRate(result) = 98

\* The scenario of C8: the baseline (read 1,000,000, write 500,000) at t = 0 and
\* a successful call at t = 1 that reads (3,048,000, 500,000).
C8_Scenario ==
    /\ last_disk_io = [read_bytes |-> 1000000, write_bytes |-> 500000]
    /\ last_call_time = 0
    /\ last_disk_io' = [read_bytes |-> 3048000, write_bytes |-> 500000]
    /\ last_call_time' = 1
    /\ IsSnapshot(result')

\* C8 as stated: in the scenario the disk read rate is 2.00 MB/s and the disk
\* write rate 0.00 MB/s.
C8_ScenarioAsStated ==
    [][C8_Scenario => ReadRate(result') = 200 /\ WriteRate(result') = 0]_vars

\* C8 amended: in the scenario the disk read rate is 1.95 MB/s
\* (2,048,000 / 2^20 = 1.953) and the disk write rate 0.00 MB/s.
C8_ScenarioRates ==
    [][C8_Scenario => ReadRate(result') = 195 /\ WriteRate(result') = 0]_vars

\* C8 witness: the state after the call of the scenario.
C8_Witness ==
    /\ IsSnapshot(result)
    /\ last_call_time = 1
    /\ last_disk_io = [read_bytes |-> 3048000, write_bytes |-> 500000]
    /\ ReadRate(result) = 195
    /\ WriteRate(result) = 0

\* The number (hundredths of a percent) the Circuitry Integrity text denotes.
IntegrityOf(ret) == FloatVal(ret["Circuitry Integrity (Sim)"].num)

HasIntegrity(ret) == "Circuitry Integrity (Sim)" \in DOMAIN ret

\* active_load and total_io of the inputs a result was computed from.
ActiveLoadOf(ret) == ret["CPU Usage (%)"] + ret["Memory Usage (%)"] + ret["GPU Usage (%)"]

TotalIoOf(ret) == ReadRate(ret) + WriteRate(ret) + SentRate(ret) + RecvRate(ret)

\* C9: Circuitry Integrity is a percentage within [0, 100] for every input
\* combination, pathological loads, temperatures and negative rates included.
C9_IntegrityWithinRange ==
    HasIntegrity(result) =>
        /\ ~result["Circuitry Integrity (Sim)"].num.neg
        /\ 0 <= IntegrityOf(result)
        /\ IntegrityOf(result) <= 10000
        /\ result["Circuitry Integrity (Sim)"].unit = "%"

\* C9 witness: active_load = 300 and temp = 200, reported as 0%.
C9_Witness ==
    /\ HasIntegrity(result)
    /\ ActiveLoadOf(result) = 30000
    /\ result["CPU Temp (°C)"] = 20000
    /\ IntegrityOf(result) = 0

\* The inputs of the scenario of C10: cpu 90, mem 85, gpu 10, temp 88, total_io 50.
C10_Scenario ==
    /\ result["CPU Usage (%)"] = 9000
    /\ result["Memory Usage (%)"] = 8500
    /\ result["GPU Usage (%)"] = 1000
    /\ result["CPU Temp (°C)"] = 8800
    /\ TotalIoOf(result) = 5000

\* C10: Circuitry Integrity is 100 - (active_load*0.2 + temp*0.5 + total_io*0.1)
\* clamped to [0, 100] and rounded to 2 decimals, active_load being cpu + mem +
\* gpu and total_io the sum of the four rates; in the scenario it is 14.00 %.
C10_IntegrityFormula ==
    HasIntegrity(result) =>
        LET exact == 100000 - (2 * ActiveLoadOf(result) + 5 * result["CPU Temp (°C)"]
                               + TotalIoOf(result))
            clamped == IF exact < 0 THEN 0 ELSE IF exact > 100000 THEN 100000 ELSE exact
        IN  /\ 2 * Abs(10 * IntegrityOf(result) - clamped) <= 10
            /\ C10_Scenario => IntegrityOf(result) = 1400

\* C10 witness: the derived indicators of the scenario have been computed.
C10_Witness == HasIntegrity(result) /\ C10_Scenario /\ IntegrityOf(result) = 1400

\* The monitor threads that are inside _monitor_loop.
Running == {t \in Threads : thread_pc[t] \in {"loop", "sampling", "sampled", "waiting"}}

Sampling == {t \in Threads : thread_pc[t] = "sampling"}

\* C4: under every interleaving of start_monitoring, stop_monitoring and
\* _apply_interval with the monitor threads, at most one thread runs
\* _monitor_loop and at most one executes get_detailed_system_data.
C4_SinglePeriodicCaller == Cardinality(Running) <= 1 /\ Cardinality(Sampling) <= 1

\* C4, its second half alone: no two threads are inside
\* get_detailed_system_data at the same time.
C4_NoConcurrentSample == Cardinality(Sampling) <= 1

\* The Hexadecimal Energy Flow text of a result.
HexOf(ret) == ret["Hexadecimal Energy Flow (Sim)"]

HasHex(ret) == "Hexadecimal Energy Flow (Sim)" \in DOMAIN ret

UpperHexChars ==
    {"0", "1", "2", "3", "4", "5", "6", "7", "8", "9", "A", "B", "C", "D", "E", "F"}

\* C11: the Hexadecimal Energy Flow text is "0x" followed by at least one
\* character of 0-9A-F (upper case) and denotes an integer of at most
\* 2^40 - 1, that is, it has at most ten digits; this also when the unmasked
\* magnitude exceeds 40 bits, is zero or is negative.
C11_HexFlowFormat ==
    HasHex(result) =>
        /\ HexOf(result).prefix = "0x"
        /\ Len(HexOf(result).digits) >= 1
        /\ Len(HexOf(result).digits) <= 10
        /\ \A i \in 1..Len(HexOf(result).digits) : HexOf(result).digits[i] \in UpperHexChars

\* C11 witness: total_io = 1,500,000 MB/s gives the magnitude 1.5 * 10^12, above
\* 2^40; the text is 0x5D3EF79800, its 40 low bits.
C11_Witness ==
    /\ HasHex(result)
    /\ result.active_load = 0
    /\ result.temp_c = 0
    /\ result.total_io = 150000000
    /\ HexOf(result).digits = <<"5", "D", "3", "E", "F", "7", "9", "8", "0", "0">>

\* The host readings of the call that returned the current result.
ObservedGpu == observed_host.host.gpu

\* C12: when the GPU interface is absent (GPUtil not importable, getGPUs
\* raising, no device) the snapshot holds a GPU usage within [0.1, 5.0] and a
\* GPU temperature within [30, 45]; both values are substituted in the same way
\* when a real device reports a load of zero.
C12_GpuFallbackRanges ==
    IsSnapshot(result) /\ (ObservedGpu.lib # "device" \/ ObservedGpu.load = 0)
    => /\ 10 <= result["GPU Usage (%)"] /\ result["GPU Usage (%)"] <= 500
       /\ 3000 <= result["GPU Temp (°C)"] /\ result["GPU Temp (°C)"] <= 4500

\* C12 witness: a real device with load 0 and temperature 41.0; the snapshot
\* holds the simulated 5.0 % and 45.0 degrees, the upper ends of the ranges.
C12_Witness ==
    /\ IsSnapshot(result)
    /\ ObservedGpu = GpuIdleDevice
    /\ result["GPU Usage (%)"] = 500
    /\ result["GPU Temp (°C)"] = 4500

\* The HostBaseline fields named by the specification.
BaselineKeys ==
    {"Operating System", "System Architecture", "CPU Model (Sim)", "Total RAM (GB)",
     "Boot Time"}

HoldsBaseline(ret) == \A k \in BaselineKeys : ret[k] = _get_static_system_info[k]

\* C13: the HostBaseline fields have the values gathered at construction in
\* every snapshot the instance produces, and the cached baseline itself is never
\* changed by a sampling call, by the derived indicators or by a consumer.
C13_BaselineStable ==
    /\ system_info = _get_static_system_info
    /\ IsSnapshot(result) => HoldsBaseline(result)
    /\ \A i \in 1..Len(data_history) : HoldsBaseline(data_history[i])

\* C13 witness: two snapshots taken at different times are in the history.
C13_Witness ==
    /\ Len(data_history) >= 2
    /\ data_history[1]["Timestamp"] # data_history[2]["Timestamp"]
    /\ data_history[1]["Boot Time"] = data_history[2]["Boot Time"]

\* The readable processes the call that returned the current result iterated.
ObservedProcs == observed_host.host.procs

\* C14: the Top CPU Process attribute is "<name> (<percent>%)" of the readable
\* process with the highest CPU usage whenever a readable process has a usage
\* above zero, and "N/A" only when none has.
C14_TopCpuProcessReported ==
    IsSnapshot(result) =>
        LET busy == {i \in 1..Len(ObservedProcs) : ObservedProcs[i].cpu_percent > 0}
        IN  IF busy # {}
            THEN \E i \in busy :
                    /\ \A j \in busy :
                          ObservedProcs[j].cpu_percent <= ObservedProcs[i].cpu_percent
                    /\ result["Top CPU Process"] =
                          <<ObservedProcs[i].name, " (",
                            FloatStr(ObservedProcs[i].cpu_percent), "%)">>
            ELSE result["Top CPU Process"] = <<"N/A">>

\* The readings of the call that returned the current result.
Observed == observed_host.host

\* No group of the readings holds an entry that is labelled CPU or Core or
\* belongs to the CPU's own group.
NoCpuTempEntry(h) ==
    /\ "cpu_thermal" \notin DOMAIN h.temps
    /\ \A g \in DOMAIN h.temps :
          \A i \in 1..Len(h.temps[g]) : ~LabelMatches(h.temps[g][i].label)

\* A fan is reported whose reading cannot be taken: not one of the soft
\* failures, which are all about something being absent.
FanUnreadable(h) == \E i \in 1..Len(h.fans) : h.fans[i].attr = "missing"

\* C15: a soft failure of one attribute (no GPU library or device, no
\* temperature sensor interface or no CPU-labelled entry, no fan sensor
\* interface or no fan reported, no CPU frequency sensor) never makes
\* get_detailed_system_data return the error result; the call succeeds and the
\* attribute holds its simulated or default value.
C15_SoftFailuresNotErrors ==
    result # <<>> /\ ~FanUnreadable(Observed) =>
        /\ IsSnapshot(result)
        /\ Observed.gpu.lib # "device" =>
              /\ result["GPU Usage (%)"] \in 10..500
              /\ result["GPU Temp (°C)"] \in 3000..4500
              /\ result["GPU Memory (GB)"] = 0
        /\ "sensors_temperatures" \notin Observed.sensor_apis \/ NoCpuTempEntry(Observed) =>
              result["CPU Temp (°C)"] \in 3500..6000
        /\ "sensors_fans" \notin Observed.sensor_apis \/ Observed.fans = <<>> =>
              result["Fan Speed (%)"] \in 3000..6000
        /\ Observed.cpu_freq = 0 => result["CPU Freq (GHz)"] = 0

\* C15 where psutil has both sensor functions: the soft failures the code
\* provides for.
C15_HandledSoftFailures ==
    result # <<>> /\ Observed.sensor_apis = AllSensorApis => C15_SoftFailuresNotErrors

\* The largest element of a non-empty set of numbers.
SetMax(S) == CHOOSE x \in S : \A y \in S : y <= x

\* The 'current' values of the entries labelled CPU or Core, in any group.
CpuLabeledAnywhere(temps) ==
    UNION { {temps[g][i].current :
                i \in {j \in 1..Len(temps[g]) : LabelMatches(temps[g][j].label)}} :
            g \in DOMAIN temps }

\* The 'current' values of the entries _get_sensor_data looks at: those of
\* coretemp that are labelled CPU or Core, or, without a coretemp group, all
\* entries of cpu_thermal.
CpuSelected(temps) ==
    IF "coretemp" \in DOMAIN temps
    THEN {temps["coretemp"][i].current :
              i \in {j \in 1..Len(temps["coretemp"]) :
                         LabelMatches(temps["coretemp"][j].label)}}
    ELSE IF "cpu_thermal" \in DOMAIN temps
    THEN {temps["cpu_thermal"][i].current : i \in 1..Len(temps["cpu_thermal"])}
    ELSE {}

\* round(uniform(35, 60), 1) of the call that returned the current result.
SimulatedCpuTemp == RoundDiv(Draw(3500, 6000, observed_host.u), 10) * 10

\* C16 as stated: CPU Temp is the maximum 'current' over all CPU-labelled
\* entries of the sensor interface, in any sensor group, whenever there is one,
\* and a simulated value within [35, 60] only when there is none.
C16_AnyGroupCpuTemp ==
    IsSnapshot(result) =>
        IF CpuLabeledAnywhere(Observed.temps) # {}
        THEN result["CPU Temp (°C)"] = SetMax(CpuLabeledAnywhere(Observed.temps))
        ELSE result["CPU Temp (°C)"] \in 3500..6000

\* C16 amended: CPU Temp is the maximum 'current' over the CPU- or Core-labelled
\* entries of the coretemp group (without a coretemp group: over all entries of
\* the cpu_thermal group), rounded to 1 decimal, whenever that maximum is above
\* 0, and the simulated value within [35, 60] otherwise; entries of other sensor
\* groups are not looked at.
C16_SelectedGroupCpuTemp ==
    IsSnapshot(result) =>
        IF \E c \in CpuSelected(Observed.temps) : c > 0
        THEN result["CPU Temp (°C)"] = RoundDiv(SetMax(CpuSelected(Observed.temps)), 10) * 10
        ELSE /\ result["CPU Temp (°C)"] = SimulatedCpuTemp
             /\ result["CPU Temp (°C)"] \in 3500..6000

\* C16 witness: the only CPU-labelled entry (61.0) is in the thinkpad group;
\* the snapshot holds the simulated 60.0.
C16_Witness ==
    /\ IsSnapshot(result)
    /\ Observed.temps = OtherGroupTemps
    /\ observed_host.u = 2
    /\ result["CPU Temp (°C)"] = 6000

\* The number (hundredths of a percent) the Unwanted Transit Purity text denotes.
PurityOf(ret) == FloatVal(ret["Unwanted Transit Purity Check (Sim)"].num)

HasPurity(ret) == "Unwanted Transit Purity Check (Sim)" \in DOMAIN ret

\* C17: Unwanted Transit Purity is 100 - (packet_errors * 10 + (active_load /
\* 100) * 5) rounded to 2 decimals and is not clamped: with enough packet
\* errors it is negative, and computing it never fails.
C17_PurityUnclamped ==
    HasPurity(result) =>
        LET exact == 1000000 - (result["Network Packet Errors"] * 100000
                                + 5 * ActiveLoadOf(result))
        IN  /\ 2 * Abs(100 * PurityOf(result) - exact) <= 100
            /\ exact < -50 => PurityOf(result) < 0
            /\ result["Unwanted Transit Purity Check (Sim)"].unit = "%"

\* C17 witness: 11 packet errors and active_load = 185 give -19.25 %.
C17_Witness ==
    /\ HasPurity(result)
    /\ result["Network Packet Errors"] = 11
    /\ ActiveLoadOf(result) = 18500
    /\ PurityOf(result) = -1925

\* Thread t leaves line 372 in this step: it records the sample it holds.
Records(t) == thread_pc[t] = "sampled" /\ thread_pc'[t] # "sampled"

\* What C18 says of one tick: an error result is logged, appends nothing and
\* schedules no GUI update; a snapshot is appended and its display scheduled;
\* either way the thread goes on to the wait before the next tick.
C18_TickRecorded(t) ==
    /\ thread_pc'[t] = "waiting"
    /\ IF IsError(data_snapshot[t].ret)
       THEN /\ data_history' = data_history
            /\ gui_updates' = gui_updates
            /\ error_log' = Min(error_log + 1, MaxLog)
       ELSE /\ data_history' = Append(data_history, data_snapshot[t].ret)
            /\ gui_updates' = gui_updates + 1
            /\ error_log' = error_log

\* The entries of the history are in the order in which they were sampled,
\* none of them twice.
InSamplingOrder(serials) ==
    \A i, j \in 1..Len(serials) : i < j => serials[i] < serials[j]

\* C18: a tick whose sample is the error result is logged, appends nothing to
\* data_history and schedules no GUI update, and the loop goes on; every
\* successful snapshot is appended exactly once, in sampling order, and
\* data_history never holds an entry with an "Error" key.
C18_HistoryOfSuccessfulSamples ==
    [][/\ \A t \in Threads : Records(t) => C18_TickRecorded(t)
       /\ InSamplingOrder(history_serials')
       /\ \A i \in 1..Len(data_history') : ~IsError(data_history'[i])]_vars

\* C18 without the sampling order: what holds of every tick of every thread.
C18_TicksHandled ==
    [][/\ \A t \in Threads : Records(t) => C18_TickRecorded(t)
       /\ \A i \in 1..Len(data_history') : ~IsError(data_history'[i])]_vars

\* C19: once stop_monitoring has set the stop event, every monitor thread that
\* is running then eventually leaves _monitor_loop (after the sample it may be
\* in), also when start_monitoring is called again right after the stop.
C19_StoppedThreadLeaves ==
    \A t \in Threads : (stop_event /\ t \in Running) ~> (thread_pc[t] = "done")

\* C19 without a restart: a thread that tests the stop event while it is set
\* leaves the loop, and one that waits goes on to that test.
C19_LeavesAtNextTest ==
    [][\A t \in Threads :
          /\ thread_pc[t] = "loop" /\ stop_event /\ thread_pc'[t] # "loop"
             => thread_pc'[t] = "done"
          /\ thread_pc[t] = "waiting" /\ thread_pc'[t] # "waiting"
             => thread_pc'[t] = "loop"]_vars

\* A step of the analysis path: run_ai_enhancement starts a worker or a worker
\* ends.
AnalysisStep == Len(ai_jobs') # Len(ai_jobs)

\* C20: the on-demand analysis (run_ai_enhancement, _ai_analysis_worker) only
\* reads the most recent snapshot of data_history: the worker is started on the
\* last entry and reports on it, and no step of the path calls
\* get_detailed_system_data or changes last_disk_io, last_net_io,
\* last_call_time or the history, wherever the monitor thread is.
C20_AnalysisReadsLatestOnly ==
    [][AnalysisStep =>
          /\ rate_vars' = rate_vars
          /\ monitor_vars' = monitor_vars
          /\ nsampled' = nsampled
          /\ data_history' = data_history
          /\ Len(ai_jobs') > Len(ai_jobs) =>
                /\ data_history # <<>>
                /\ ai_jobs'[Len(ai_jobs')] = data_history[Len(data_history)]
          /\ Len(ai_jobs') < Len(ai_jobs) =>
                \E i \in 1..Len(ai_jobs) : ai_report'.timestamp = ai_jobs[i]["Timestamp"]]_vars

\* C20 witness: a worker runs on the latest of two different snapshots while
\* the monitor thread is inside get_detailed_system_data.
C20_Witness ==
    /\ Len(data_history) = 2
    /\ data_history[1] # data_history[2]
    /\ Len(ai_jobs) = 1
    /\ ai_jobs[1] = data_history[2]
    /\ \E t \in Threads : thread_pc[t] = "sampling"

\* C21: a snapshot is never changed after get_detailed_system_data has returned
\* it: whatever later calls return and whatever the consumers do (the history
\* buffer, the renderer, the exporter, the analysis), every snapshot held in
\* data_history, by a scheduled display call or by an analysis worker equals
\* the value the call returned.
C21_SnapshotNeverMutated ==
    /\ \A i \in 1..Len(data_history) : data_history[i] = returned[history_serials[i]]
    /\ \A i \in 1..Len(gui_pending) : gui_pending[i].ret = returned[gui_pending[i].serial]
    /\ \A i \in 1..Len(ai_jobs) : ai_jobs[i] = returned[ai_job_serials[i]]

\* C21 witness: two different snapshots are in the history after a later call
\* has returned, both have been rendered, the history has been saved and an
\* analysis of a snapshot has ended.
C21_Witness ==
    /\ Len(data_history) = 2
    /\ data_history[1] # data_history[2]
    /\ gui_updates = 2
    /\ gui_pending = <<>>
    /\ csv_file # <<>>
    /\ Len(csv_file.rows) = 2
    /\ ai_report # <<>>

\* The keys of the report the claim names.
ReportShape ==
    {"analysis", "root_cause", "optimization_suggestions", "correction_commands",
     "hardware_enhancements", "conceptual_enhancements"}

\* C22: call_gemini_api always returns a report: without a remote model
\* (ai_enabled false) and on every failure of the remote call the analysis ends
\* with the local fallback report, which has the six keys of a report, and
\* never with an exception.
C22_AlwaysReturnsReport ==
    ai_report # <<>> =>
        /\ ai_report.shown
        /\ ReportShape \subseteq DOMAIN ai_report.response

\* What holds instead: no remote model is ever configured, and every analysis
\* ends with the exception call_gemini_api raises.
C22_NeverReturnsReport ==
    /\ ~ai_enabled
    /\ ai_report # <<>> => ~ai_report.shown /\ ai_report.response = <<>>

\* The file holds what C23 says of saving the list saved: the header has every
\* key of every dict of saved once and nothing else, and there is one row for
\* every dict, in the order of saved, whose cell under a column is the dict's
\* value for that key, or the empty cell when the dict does not have the key.
IsCsvOf(file, saved) ==
    /\ {file.header[c] : c \in 1..Len(file.header)}
          = UNION {DOMAIN saved[i] : i \in 1..Len(saved)}
    /\ \A c, d \in 1..Len(file.header) : c # d => file.header[c] # file.header[d]
    /\ Len(file.rows) = Len(saved)
    /\ \A i \in 1..Len(saved) :
          /\ Len(file.rows[i]) = Len(file.header)
          /\ \A c \in 1..Len(file.header) :
                IF file.header[c] \in DOMAIN saved[i]
                THEN /\ DOMAIN file.rows[i][c] = {"str"}
                     /\ file.rows[i][c].str = saved[i][file.header[c]]
                ELSE DOMAIN file.rows[i][c] = {"text"} /\ file.rows[i][c].text = ""

\* C23: for every non-empty history, also one whose snapshots have differing
\* key sets, a save writes a file whose header is exactly the union of the keys
\* of the snapshots saved, followed by one row for each of them in history
\* order, a missing key giving an empty cell (save_all_history_csv saves the
\* history, save_current_data_csv its last snapshot).
C23_CsvHeaderIsUnionOfKeys ==
    [][csv_file' # csv_file =>
          \/ IsCsvOf(csv_file', data_history)
          \/ IsCsvOf(csv_file', <<data_history[Len(data_history)]>>)]_vars

\* C23 witness: a history of two snapshots with different key sets has been
\* saved, and each of the two rows has an empty cell.
C23_Witness ==
    /\ Len(data_history) = 2
    /\ csv_file # <<>>
    /\ Len(csv_file.rows) = 2
    /\ ~(DOMAIN data_history[1] \subseteq DOMAIN data_history[2])
    /\ ~(DOMAIN data_history[2] \subseteq DOMAIN data_history[1])
    /\ \A i \in 1..2 : \E c \in 1..Len(csv_file.header) :
          DOMAIN csv_file.rows[i][c] = {"text"}

\* A real device that is nearly idle: 5 % load, no memory in use, 45 degrees.
GpuLightDevice == [lib |-> "device", load |-> 500, memoryUsed |-> 0, temperature |-> 4500]

\* The attributes whose values are the GPU readings or are computed from them.
GpuDependentKeys ==
    {"GPU Usage (%)", "GPU Memory (GB)", "GPU Temp (°C)",
     "Energetic Flux (Sim)", "Circuitry Integrity (Sim)",
     "Hexadecimal Energy Flow (Sim)", "Software-Hardware I/O Saturation (Sim)",
     "Unwanted Transit Purity Check (Sim)"}

\* Two snapshots differ in an attribute name or in a flag: in their key sets or
\* in the value of an attribute that is not a GPU reading or computed from one.
DifferInNameOrFlag(s1, s2) ==
    \/ DOMAIN s1 # DOMAIN s2
    \/ \E k \in (DOMAIN s1 \cap DOMAIN s2) \ GpuDependentKeys : s1[k] # s2[k]

\* The call observing e replaces the GPU usage and temperature by simulated ones.
GpuIsSimulated(e) == GpuRead(e)["GPU Usage (%)"] = 0

\* What the same call returns when everything is as observed but the GPU
\* readings, which come from the real device g.
TwinSnapshot(e, g) ==
    get_detailed_system_data(RateState, system_info, [e EXCEPT !.host.gpu = g]).ret

\* C24: simulated GPU values are distinguishable from real telemetry: the
\* snapshot of a call that simulated the GPU usage and temperature differs in
\* an attribute name or a flag from the snapshot of every run that differs only
\* in that its GPU values come from a real device.
C24_SimulatedGpuDistinguishable ==
    [][\A e \in HostObservations :
          /\ e.host = observed_host'.host
          /\ e.u = observed_host'.u
          /\ GpuIsSimulated(e)
          /\ IsSnapshot(result')
          => \A g \in {GpuBusyDevice, GpuLightDevice} :
                DifferInNameOrFlag(result', TwinSnapshot(e, g))]_vars

\* What holds instead: a snapshot with simulated GPU values has the key set of
\* the snapshot of the run with a real device, and with the device of
\* GpuLightDevice and the largest draws the two snapshots are equal.
C24_SimulatedGpuLooksReal ==
    [][\A e \in HostObservations :
          /\ e.host = observed_host'.host
          /\ e.u = observed_host'.u
          /\ GpuIsSimulated(e)
          /\ IsSnapshot(result')
          => /\ DOMAIN result' = DOMAIN TwinSnapshot(e, GpuBusyDevice)
             /\ e.host.gpu.lib # "device" /\ e.u = 2
                   => result' = TwinSnapshot(e, GpuLightDevice)]_vars

\* A display call is run in this step: the snapshot it holds is rendered.
Renders == gui_pending # <<>> /\ gui_pending' = Tail(gui_pending)

\* The case in which C25 has a row of the snapshot d tagged high-usage.
IsHighUsage(d, attr) ==
    \/ /\ attr \in {"CPU Usage (%)", "Memory Usage (%)", "GPU Usage (%)"}
       /\ attr \in DOMAIN d
       /\ d[attr] > 8000
    \/ /\ attr = "CPU Temp (°C)"
       /\ attr \in DOMAIN d
       /\ d[attr] > 8500

\* C25: when a successful snapshot is rendered, a row is tagged HighUsage
\* exactly when it is CPU Usage, Memory Usage or GPU Usage with a number above
\* 80, or CPU Temp with a number above 85; a value at or below the threshold
\* and every other row is not tagged HighUsage.
C25_HighUsageTagging ==
    [][Renders /\ IsSnapshot(Head(gui_pending).ret) =>
          \A attr \in DOMAIN perf_tree' :
             perf_tree'[attr].tag = "HighUsage" <=> IsHighUsage(Head(gui_pending).ret, attr)]_vars

\* C25 witness: a rendered snapshot with the CPU usage at 80.1 and the GPU
\* usage at 80.01 (tagged), the memory usage at 80.0 and the CPU temperature
\* at 85.0 (not tagged).
C25_Witness ==
    /\ gui_pending = <<>>
    /\ perf_tree["CPU Usage (%)"] = [value |-> [str |-> 8010], tag |-> "HighUsage"]
    /\ perf_tree["GPU Usage (%)"] = [value |-> [str |-> 8001], tag |-> "HighUsage"]
    /\ perf_tree["Memory Usage (%)"] = [value |-> [str |-> 8000], tag |-> "Normal"]
    /\ perf_tree["CPU Temp (°C)"] = [value |-> [str |-> 8500], tag |-> "Normal"]

\* C26: after a successful snapshot has been rendered, every row defined in
\* _initialize_perf_tree, the eight derived indicators and the CORE_USAGE rows
\* included, shows the value the snapshot holds under the row's attribute name;
\* no row shows "N/A" because the snapshot lacks its name.
C26_EveryRowShowsSnapshotValue ==
    [][Renders /\ IsSnapshot(Head(gui_pending).ret) =>
          \A attr \in tree_rows :
             /\ attr \in DOMAIN Head(gui_pending).ret
             /\ perf_tree'[attr].value = ShownValue(Head(gui_pending).ret, attr)]_vars

\* The rows whose attribute name no snapshot has: the names of the derived
\* indicators carry a unit the snapshot's keys do not have, and the collector
\* has no interrupt time.
RowsWithoutKey ==
    groups.FLUX_CONCEPTUAL \cup {"CPU Interrupt Time (%)"}

\* What holds instead: the rows of RowsWithoutKey show "N/A" after every
\* rendering, all other rows show the snapshot's value.
C26_NamedRowsShowNA ==
    [][Renders /\ IsSnapshot(Head(gui_pending).ret) =>
          \A attr \in tree_rows :
             IF attr \in RowsWithoutKey
             THEN /\ attr \notin DOMAIN Head(gui_pending).ret
                  /\ perf_tree'[attr].value = [text |-> "N/A"]
             ELSE /\ attr \in DOMAIN Head(gui_pending).ret
                  /\ perf_tree'[attr].value = [str |-> Head(gui_pending).ret[attr]]]_vars

\* stop_monitoring has returned and start_monitoring has not been called since.
Stopped == stop_event /\ ~monitoring_active

\* C27: after stop_monitoring has returned, and as long as start_monitoring is
\* not called again, at most one further snapshot (the sample in flight when
\* the stop event was set) is appended to data_history, which then no longer
\* grows: the history is never more than one entry longer than at the stop.
C27_AtMostOneAppendAfterStop == Stopped => Len(data_history) <= len_at_stop + 1

\* C27 where a single monitor thread was ever started: the bound holds.
C27_SingleThreadAppendsOnce ==
    Stopped /\ Cardinality({t \in Threads : thread_pc[t] # "unborn"}) <= 1
        => Len(data_history) <= len_at_stop + 1

\* After a stop, the history grows by at most one entry for every thread that
\* was inside _monitor_loop.
C27_OneAppendPerThread ==
    Stopped => Len(data_history) <= len_at_stop + Cardinality({t \in Threads : thread_pc[t] # "unborn"})

====
